---- MODULE Spec2Model ----
(***************************************************************************)
(* Firecracker VM manager: the VM lifecycle engine (create, stop, start,   *)
(* restart, destroy), the TAP device allocator, the VM configuration cache *)
(* and VM discovery, as a state machine over the host state they act on.   *)
(*                                                                         *)
(* Every command line invocation is one process that runs to completion,   *)
(* so each invocation is one action; a foreground create is the whole run  *)
(* up to the exit of the hypervisor and the cleanup that follows it.  The  *)
(* hypervisor, supervisord and the ip command are external: calls whose    *)
(* result the code checks may fail, and the action draws their outcome     *)
(* from a small set.  Read-only queries (ip link show, Path.exists) are    *)
(* taken to answer truthfully.                                             *)
(***************************************************************************)
EXTENDS Integers, Sequences, FiniteSets, TLC

\* ------------------------------------------------------------------------
\* Bounds and input domains
\* ------------------------------------------------------------------------

\* auto-generated device indices are 0 .. MaxTap-1
MaxTap == 4

Names == {"vm1", "vm2"}

TapPrefix == "tap"

TapName(prefix, i) == prefix \o ToString(i)

AutoNames == {TapName(TapPrefix, i) : i \in 0..(MaxTap - 1)}

\* caller-supplied device names (pre-provisioned in external mode)
ExtNames == {"ext0", "ext1"}

Devs == AutoNames \cup ExtNames

\* create parameter sets: cpus, memory, guest ip, host ip, base image
Profiles ==
  { [cpus |-> 1, memory |-> 128, vm_ip |-> "172.16.0.2",
     tap_ip |-> "172.16.0.1", image |-> "alpine.ext4"],
    [cpus |-> 2, memory |-> 256, vm_ip |-> "172.16.0.3",
     tap_ip |-> "172.16.0.1", image |-> "ubuntu.ext4"] }

VmIps == {p.vm_ip : p \in Profiles}

KernelPath == "/var/lib/firecracker/kernels/vmlinux"

RootfsPath(vm_name) == "/var/lib/firecracker/rootfs/" \o vm_name \o ".ext4"

RootfsPaths == {RootfsPath(n) : n \in Names}

\* ------------------------------------------------------------------------
\* Host state
\* ------------------------------------------------------------------------

VARIABLES
  cache,      \* cache[n]: the VM Record file of n (present flag + fields)
  rootfs,     \* rootfs[path]: "" or the image the file was copied from
  sock,       \* sock[n]: the socket file of n exists
  hv,         \* hv[n]: the hypervisor process of n and its live config
  dev,        \* dev[d]: host network interface d
  route,      \* route[ip]: device of the /32 host route to ip, or ""
  supConf,    \* supConf[n]: /etc/supervisor/conf.d/n.conf exists
  supLoaded,  \* supLoaded[n]: supervisord has program n loaded
  hist        \* hist[n]: the invocations on n so far (for the properties)

vars == <<cache, rootfs, sock, hv, dev, route, supConf, supLoaded, hist>>

NoRecord ==
  [present |-> FALSE, valid |-> FALSE, kernel |-> "", rootfs |-> "", tap_device |-> "",
   mmds_tap |-> "", vm_ip |-> "", tap_ip |-> "", cpus |-> 0, memory |-> 0,
   hostname |-> "", base_image |-> "", networkdriver |-> ""]

NoDoc == [k \in {} |-> <<>>]

HvDown ==
  [st |-> "down", vcpu_count |-> 0, mem_size_mib |-> 0,
   kernel |-> "", drive |-> "", eth0 |-> "", mmds0 |-> "",
   mmds_config |-> FALSE, mmds |-> NoDoc, started |-> FALSE]

NoDev == [present |-> FALSE, ips |-> {}, up |-> FALSE]

\* the host state as one value, for the sequential code of a handler
World ==
  [cache |-> cache, rootfs |-> rootfs, sock |-> sock, hv |-> hv,
   dev |-> dev, route |-> route, supConf |-> supConf,
   supLoaded |-> supLoaded]

\* ------------------------------------------------------------------------
\* FirecrackerAPI (lib/firecracker_api.py)
\* ------------------------------------------------------------------------

\* a connect() on the socket path succeeds: the file exists and a
\* hypervisor listens on it
Connects(w, n) == w.sock[n] /\ w.hv[n].st = "up"

\* a GET / on the socket connects
check_socket_in_use(w, n) == Connects(w, n)

\* PUT requests: 200/204 iff the socket connects, the hypervisor accepts
\* the call (configuration is pre-boot only) and the call did not fail
_make_request(w, n, failed) ==
  Connects(w, n) /\ ~w.hv[n].started /\ ~failed

\* GET /vm/config: the live configuration document, or absence
get_vm_config(w, n) ==
  IF check_socket_in_use(w, n) THEN <<w.hv[n]>> ELSE <<>>

\* a request that the hypervisor accepts and that leaves its defaults
set_machine_config_ignored(w, n, vcpu_count, mem_size_mib, failed) ==
  IF _make_request(w, n, failed)
  THEN [ok |-> TRUE,
        w |-> [w EXCEPT !.hv[n].vcpu_count = 1, !.hv[n].mem_size_mib = 128]]
  ELSE [ok |-> FALSE, w |-> w]

set_machine_config(w, n, vcpu_count, mem_size_mib, failed) ==
  IF _make_request(w, n, failed)
  THEN [ok |-> TRUE,
        w |-> [w EXCEPT !.hv[n].vcpu_count = vcpu_count,
                        !.hv[n].mem_size_mib = mem_size_mib]]
  ELSE [ok |-> FALSE, w |-> w]

\* the kernel file is checked on the host before the request is made
set_boot_source(w, n, kernel_path, failed) ==
  IF kernel_path = KernelPath /\ _make_request(w, n, failed)
  THEN [ok |-> TRUE, w |-> [w EXCEPT !.hv[n].kernel = kernel_path]]
  ELSE [ok |-> FALSE, w |-> w]

\* the rootfs file is checked on the host before the request is made
set_rootfs(w, n, rootfs_path, failed) ==
  IF /\ rootfs_path \in RootfsPaths
     /\ w.rootfs[rootfs_path] # ""
     /\ _make_request(w, n, failed)
  THEN [ok |-> TRUE, w |-> [w EXCEPT !.hv[n].drive = rootfs_path]]
  ELSE [ok |-> FALSE, w |-> w]

set_network_interface(w, n, iface_id, host_dev_name, failed) ==
  IF _make_request(w, n, failed)
  THEN [ok |-> TRUE,
        w |-> IF iface_id = "eth0"
              THEN [w EXCEPT !.hv[n].eth0 = host_dev_name]
              ELSE [w EXCEPT !.hv[n].mmds0 = host_dev_name]]
  ELSE [ok |-> FALSE, w |-> w]

configure_mmds_interface(w, n, failed) ==
  IF _make_request(w, n, failed)
  THEN [ok |-> TRUE, w |-> [w EXCEPT !.hv[n].mmds_config = TRUE]]
  ELSE [ok |-> FALSE, w |-> w]

\* an empty document is skipped and counts as success
set_mmds_metadata(w, n, metadata, failed) ==
  IF metadata = NoDoc THEN [ok |-> TRUE, w |-> w]
  ELSE IF _make_request(w, n, failed)
  THEN [ok |-> TRUE, w |-> [w EXCEPT !.hv[n].mmds = metadata]]
  ELSE [ok |-> FALSE, w |-> w]

start_microvm(w, n, failed) ==
  IF _make_request(w, n, failed)
  THEN [ok |-> TRUE, w |-> [w EXCEPT !.hv[n].started = TRUE]]
  ELSE [ok |-> FALSE, w |-> w]

\* ------------------------------------------------------------------------
\* NetworkManager (lib/network_manager.py)
\* ------------------------------------------------------------------------

\* ip link show <device> returns 0
_setup_device_common(w, device_name) == w.dev[device_name].present

_create_tap_device(w, device_name) ==
  [w EXCEPT !.dev[device_name] = [present |-> TRUE, ips |-> {}, up |-> FALSE]]

_bring_device_up(w, device_name) ==
  [w EXCEPT !.dev[device_name].up = TRUE]

\* index of a device name under a prefix: the digits after the prefix
HasIndex(device, prefix, i) == device = TapName(prefix, i)

\* only lines naming a device that starts with 'tap' are kept
discover_existing_tap_devices(w) ==
  {d \in Devs : w.dev[d].present /\ \E i \in 0..MaxTap : HasIndex(d, TapPrefix, i)}

\* an allocation that looks only at the names taken in this process
find_next_available_tap_device_local(w, allocated) ==
  LET used_indices ==
        {i \in 0..MaxTap : \E d \in allocated : HasIndex(d, TapPrefix, i)}
      index == CHOOSE i \in 0..(MaxTap + 1) :
                 /\ i \notin used_indices
                 /\ \A j \in 0..(i - 1) : j \in used_indices
      device_name == TapName(TapPrefix, index)
  IN [name |-> device_name, allocated |-> allocated \cup {device_name}]

\* an allocation that counts from one
find_next_available_tap_device_from_one(w, allocated) ==
  LET existing_devices == discover_existing_tap_devices(w)
      used_indices ==
        {i \in 0..MaxTap :
           \E d \in existing_devices \cup allocated : HasIndex(d, TapPrefix, i)}
      index == CHOOSE i \in 1..(MaxTap + 1) :
                 /\ i \notin used_indices
                 /\ \A j \in 1..(i - 1) : j \in used_indices
      device_name == TapName(TapPrefix, index)
  IN [name |-> device_name, allocated |-> allocated \cup {device_name}]

\* an allocation that does not track the name it returns
find_next_available_tap_device_untracked(w, allocated) ==
  [name |-> find_next_available_tap_device_local(
              w, discover_existing_tap_devices(w) \cup allocated).name,
   allocated |-> allocated]

\* the smallest index used neither on the host nor in this process
find_next_available_tap_device(w, allocated) ==
  LET existing_devices == discover_existing_tap_devices(w)
      used_indices ==
        {i \in 0..MaxTap :
           \E d \in existing_devices \cup allocated : HasIndex(d, TapPrefix, i)}
      index == CHOOSE i \in 0..(MaxTap + 1) :
                 /\ i \notin used_indices
                 /\ \A j \in 0..(i - 1) : j \in used_indices
      device_name == TapName(TapPrefix, index)
  IN [name |-> device_name, allocated |-> allocated \cup {device_name}]

validate_tap_device_available(w, allocated, device_name) ==
  IF device_name = "" THEN TRUE
  ELSE IF device_name \in discover_existing_tap_devices(w) THEN FALSE
  ELSE IF device_name \in allocated THEN FALSE
  ELSE TRUE

\* failAt names the ip command that fails, if it is run; cmds are the
\* sudo ip commands the call ran, in order
setup_tap_device(w, tap_device, tap_ip, vm_ip, failAt) ==
  LET exists == _setup_device_common(w, tap_device)
      w1 == IF exists THEN w ELSE _create_tap_device(w, tap_device)
      c1 == IF exists THEN <<>> ELSE <<"tuntap add">>
      hasIp == tap_ip \in w1.dev[tap_device].ips
      w2 == IF hasIp THEN w1
            ELSE [w1 EXCEPT !.dev[tap_device].ips = @ \cup {tap_ip}]
      c2 == IF hasIp THEN c1 ELSE Append(c1, "addr add")
      w3 == _bring_device_up(w2, tap_device)
      c3 == Append(c2, "link set up")
      hasRoute == w3.route[vm_ip] # ""
      w4 == IF hasRoute THEN w3 ELSE [w3 EXCEPT !.route[vm_ip] = tap_device]
      c4 == IF hasRoute THEN c3 ELSE Append(c3, "route add")
  IN IF ~exists /\ failAt = "tap_create"
     THEN [ok |-> FALSE, w |-> w, cmds |-> c1]
     ELSE IF ~hasIp /\ failAt = "tap_addr"
     THEN [ok |-> FALSE, w |-> w1, cmds |-> c2]
     ELSE IF failAt = "tap_up" THEN [ok |-> FALSE, w |-> w2, cmds |-> c3]
     ELSE IF ~hasRoute /\ failAt = "tap_route"
     THEN [ok |-> FALSE, w |-> w3, cmds |-> c4]
     ELSE [ok |-> TRUE, w |-> w4, cmds |-> c4]

setup_mmds_tap_device(w, mmds_tap, failAt) ==
  LET exists == _setup_device_common(w, mmds_tap)
      w1 == IF exists THEN w ELSE _create_tap_device(w, mmds_tap)
      c1 == IF exists THEN <<>> ELSE <<"tuntap add">>
      w2 == _bring_device_up(w1, mmds_tap)
      c2 == Append(c1, "link set up")
  IN IF ~exists /\ failAt = "mmds_create"
     THEN [ok |-> FALSE, w |-> w, cmds |-> c1]
     ELSE IF failAt = "mmds_up" THEN [ok |-> FALSE, w |-> w1, cmds |-> c2]
     ELSE [ok |-> TRUE, w |-> w2, cmds |-> c2]

\* ip link del: the kernel drops the routes through the device with it
DeleteLink(w, tap_device) ==
  [w EXCEPT !.dev[tap_device] = NoDev,
            !.route = [ip \in VmIps |->
                         IF w.route[ip] = tap_device THEN "" ELSE w.route[ip]]]

\* a removal that reports success and leaves the device
remove_tap_device_left(w, tap_device, failed) == [ok |-> TRUE, w |-> w]

remove_tap_device(w, tap_device, failed) ==
  IF _setup_device_common(w, tap_device)
  THEN IF failed THEN [ok |-> FALSE, w |-> w]
       ELSE [ok |-> TRUE, w |-> DeleteLink(w, tap_device)]
  ELSE [ok |-> TRUE, w |-> w]

\* the network-driver dispatch of the callers in lib/vm_lifecycle.py:
\* in external mode the devices belong to someone else and are not touched
setup_tap_device_driver(w, tap_device, tap_ip, vm_ip, networkdriver, failAt) ==
  IF networkdriver = "external" THEN [ok |-> TRUE, w |-> w, cmds |-> <<>>]
  ELSE setup_tap_device(w, tap_device, tap_ip, vm_ip, failAt)

setup_mmds_tap_device_driver(w, mmds_tap, networkdriver, failAt) ==
  IF networkdriver = "external" THEN [ok |-> TRUE, w |-> w, cmds |-> <<>>]
  ELSE setup_mmds_tap_device(w, mmds_tap, failAt)

remove_tap_device_driver(w, tap_device, networkdriver, failed) ==
  IF networkdriver = "external" THEN [ok |-> TRUE, w |-> w]
  ELSE remove_tap_device(w, tap_device, failed)

\* ------------------------------------------------------------------------
\* ConfigManager (lib/config_manager.py)
\* ------------------------------------------------------------------------

\* a document in which the caller's own network_config wins
parse_metadata_keeping(metadata_arg, tap_ip, vm_ip, hostname) ==
  [k \in (DOMAIN metadata_arg) \cup {"network_config"} |->
     IF k \in DOMAIN metadata_arg THEN metadata_arg[k]
     ELSE [ip |-> vm_ip, gateway |-> tap_ip, hostname |-> hostname]]

\* the caller's document with its network_config key set (overwritten)
parse_metadata(metadata_arg, tap_ip, vm_ip, hostname) ==
  [k \in (DOMAIN metadata_arg) \cup {"network_config"} |->
     IF k = "network_config"
     THEN [ip |-> vm_ip, gateway |-> tap_ip, hostname |-> hostname]
     ELSE metadata_arg[k]]

\* the record fields that hold numbers
NumberKeys == {"cpus", "memory"}

\* the numbers a record can hold
RecordNumbers ==
  {0} \cup {p.cpus : p \in Profiles} \cup {p.memory : p \in Profiles}

\* json.dump of a flat document: a number is written in decimal digits, a
\* string as its characters between quotes
json_dump(data) ==
  [k \in DOMAIN data |->
     IF k \in NumberKeys
     THEN [type |-> "number", text |-> ToString(data[k])]
     ELSE [type |-> "string", text |-> data[k]]]

\* json.load of such a text: the number that the digits denote, the
\* characters of the string
json_load(doc) ==
  [k \in DOMAIN doc |->
     IF doc[k].type = "number"
     THEN CHOOSE i \in RecordNumbers : ToString(i) = doc[k].text
     ELSE doc[k].text]

\* a cache file with the text doc, as the record that json.load reads
\* from it; valid: the text of the file is a JSON document
CacheFile(doc) == [present |-> TRUE, valid |-> TRUE] @@ json_load(doc)

\* a save that reports success and writes nothing
save_vm_config_dropped(w, vm_name, kernel_path, rootfs_path, tap_device, mmds_tap, vm_ip, tap_ip, cpus, memory, hostname, base_image, networkdriver, failed) ==
  [ok |-> TRUE, w |-> w]

\* a save that writes the vCPU count and the memory size into each
\* other's field
save_vm_config_swapped(w, vm_name, kernel_path, rootfs_path, tap_device, mmds_tap, vm_ip, tap_ip, cpus, memory, hostname, base_image, networkdriver, failed) ==
  IF failed THEN [ok |-> FALSE, w |-> w]
  ELSE [ok |-> TRUE,
        w |-> [w EXCEPT !.cache[vm_name] =
                 [present |-> TRUE, valid |-> TRUE, kernel |-> kernel_path,
                  rootfs |-> rootfs_path, tap_device |-> tap_device,
                  mmds_tap |-> mmds_tap, vm_ip |-> vm_ip, tap_ip |-> tap_ip,
                  cpus |-> memory, memory |-> cpus, hostname |-> hostname,
                  base_image |-> base_image,
                  networkdriver |-> networkdriver]]]

\* a save in the format that had no metadata-service interface
save_vm_config_without_mmds(w, vm_name, kernel_path, rootfs_path, tap_device, mmds_tap, vm_ip, tap_ip, cpus, memory, hostname, base_image, networkdriver, failed) ==
  IF failed THEN [ok |-> FALSE, w |-> w]
  ELSE [ok |-> TRUE,
        w |-> [w EXCEPT !.cache[vm_name] =
                 [present |-> TRUE, valid |-> TRUE, kernel |-> kernel_path,
                  rootfs |-> rootfs_path, tap_device |-> tap_device,
                  mmds_tap |-> "", vm_ip |-> vm_ip, tap_ip |-> tap_ip,
                  cpus |-> cpus, memory |-> memory, hostname |-> hostname,
                  base_image |-> base_image,
                  networkdriver |-> networkdriver]]]

save_vm_config(w, vm_name, kernel_path, rootfs_path, tap_device, mmds_tap, vm_ip, tap_ip, cpus, memory, hostname, base_image, networkdriver, failed) ==
  LET cache_data ==
        [kernel |-> kernel_path, rootfs |-> rootfs_path,
         tap_device |-> tap_device, mmds_tap |-> mmds_tap, vm_ip |-> vm_ip,
         tap_ip |-> tap_ip, cpus |-> cpus, memory |-> memory,
         hostname |-> hostname, base_image |-> base_image,
         networkdriver |-> networkdriver]
  IN IF failed THEN [ok |-> FALSE, w |-> w]
     ELSE [ok |-> TRUE,
           w |-> [w EXCEPT !.cache[vm_name] = CacheFile(json_dump(cache_data))]]

\* the record, or nothing when the cache file does not exist or json.load
\* raises on its text
load_vm_config(w, vm_name) ==
  IF w.cache[vm_name].present /\ w.cache[vm_name].valid
  THEN <<w.cache[vm_name]>>
  ELSE <<>>

\* a removal that reports success and leaves the file
remove_vm_config_cache_kept(w, vm_name, failed) == [ok |-> TRUE, w |-> w]

\* an absent cache file is a success
remove_vm_config_cache(w, vm_name, failed) ==
  IF w.cache[vm_name].present
  THEN IF failed THEN [ok |-> FALSE, w |-> w]
       ELSE [ok |-> TRUE, w |-> [w EXCEPT !.cache[vm_name] = NoRecord]]
  ELSE [ok |-> TRUE, w |-> w]

get_all_cached_vms(w) == {n \in Names : w.cache[n].present}

validate_create_parameters(args) ==
  /\ args.kernel # ""
  /\ args.image # ""
  /\ args.rootfs_size # ""
  /\ args.tap_ip # ""
  /\ args.vm_ip # ""
  /\ args.cpus # 0
  /\ args.memory # 0

validate_external_network_parameters(args) ==
  \/ args.networkdriver # "external"
  \/ /\ args.tap_device # ""
     /\ args.tap_ip # ""
     /\ args.mmds_tap # ""
     /\ args.vm_ip # ""

\* ------------------------------------------------------------------------
\* FilesystemManager (lib/filesystem_manager.py)
\* ------------------------------------------------------------------------

resolve_kernel_path(kernel_filename) ==
  IF kernel_filename = "" THEN "" ELSE KernelPath

\* copy the image over the rootfs file and resize it; a failed build
\* deletes the file it was writing
\* a build that overwrites an existing rootfs file without being told to
build_rootfs_overwriting(w, vm_name, image_filename, force_overwrite, failed) ==
  LET rootfs_file == RootfsPath(vm_name)
  IN IF failed
     THEN [path |-> "", w |-> [w EXCEPT !.rootfs[rootfs_file] = ""]]
     ELSE [path |-> rootfs_file,
           w |-> [w EXCEPT !.rootfs[rootfs_file] = image_filename]]

\* a build that leaves what it has written when the copy or resize fails
build_rootfs_leaving_partial(w, vm_name, image_filename, force_overwrite, failed) ==
  LET rootfs_file == RootfsPath(vm_name)
  IN IF w.rootfs[rootfs_file] # "" /\ ~force_overwrite
     THEN [path |-> "", w |-> w]
     ELSE [path |-> IF failed THEN "" ELSE rootfs_file,
           w |-> [w EXCEPT !.rootfs[rootfs_file] = image_filename]]

build_rootfs(w, vm_name, image_filename, force_overwrite, failed) ==
  LET rootfs_file == RootfsPath(vm_name)
  IN IF w.rootfs[rootfs_file] # "" /\ ~force_overwrite
     THEN [path |-> "", w |-> w]
     ELSE IF failed
     THEN [path |-> "", w |-> [w EXCEPT !.rootfs[rootfs_file] = ""]]
     ELSE [path |-> rootfs_file,
           w |-> [w EXCEPT !.rootfs[rootfs_file] = image_filename]]

prepare_filesystem(w, args, failed) ==
  LET kernel_path == resolve_kernel_path(args.kernel)
      built == build_rootfs(w, args.name, args.image, args.force_rootfs, failed)
  IN IF kernel_path = "" THEN [kernel_path |-> "", rootfs_path |-> "", w |-> w]
     ELSE IF built.path = ""
     THEN [kernel_path |-> "", rootfs_path |-> "", w |-> built.w]
     ELSE [kernel_path |-> kernel_path, rootfs_path |-> built.path,
           w |-> built.w]

\* ------------------------------------------------------------------------
\* supervisord, as driven through supervisorctl and its conf.d directory
\* ------------------------------------------------------------------------

\* a spawned hypervisor binds its socket path; it exits at once when the
\* path already exists
Spawn(w, n) ==
  IF w.sock[n] THEN w ELSE [w EXCEPT !.hv[n] = [HvDown EXCEPT !.st = "starting"]]

\* the spawned hypervisor starts to listen on its socket
Listen(w, n) ==
  IF w.hv[n].st # "starting" THEN w
  ELSE IF w.sock[n] THEN [w EXCEPT !.hv[n] = HvDown]
  ELSE [w EXCEPT !.hv[n].st = "up", !.sock[n] = TRUE]

create_supervisor_config(w, vm_name, failed) ==
  IF failed THEN [ok |-> FALSE, w |-> w]
  ELSE [ok |-> TRUE, w |-> [w EXCEPT !.supConf[vm_name] = TRUE]]

\* a removal that counts a config file that is already gone as a failure
remove_supervisor_config_strict(w, vm_name, failed) ==
  IF w.supConf[vm_name] /\ ~failed
  THEN [ok |-> TRUE, w |-> [w EXCEPT !.supConf[vm_name] = FALSE]]
  ELSE [ok |-> FALSE, w |-> w]

remove_supervisor_config(w, vm_name, failed) ==
  IF w.supConf[vm_name]
  THEN IF failed THEN [ok |-> FALSE, w |-> w]
       ELSE [ok |-> TRUE, w |-> [w EXCEPT !.supConf[vm_name] = FALSE]]
  ELSE [ok |-> TRUE, w |-> w]

\* supervisorctl update: programs whose config was added are loaded and
\* started (autostart=true), programs whose config is gone are stopped and
\* dropped, unchanged programs are left alone
SupervisorUpdate(w) ==
  LET added == {m \in Names : w.supConf[m] /\ ~w.supLoaded[m]}
      removed == {m \in Names : ~w.supConf[m] /\ w.supLoaded[m]}
      hv1 == [m \in Names |->
                IF m \in removed THEN HvDown
                ELSE IF m \in added THEN Spawn(w, m).hv[m]
                ELSE w.hv[m]]
  IN [w EXCEPT !.supLoaded = w.supConf, !.hv = hv1]

supervisor_reload(w, failed) ==
  IF failed THEN [ok |-> FALSE, w |-> w]
  ELSE [ok |-> TRUE, w |-> SupervisorUpdate(w)]

\* a stop that also deletes the program's config file
SupervisorStop_unconfiguring(w, n, failed) ==
  IF ~w.supLoaded[n] \/ failed THEN [ok |-> FALSE, w |-> w]
  ELSE [ok |-> TRUE,
        w |-> [w EXCEPT !.hv[n] = HvDown, !.supConf[n] = FALSE]]

\* supervisorctl stop: exit 0 when the program is known (a program that is
\* not running is not an error), the process is stopped
SupervisorStop(w, n, failed) ==
  IF ~w.supLoaded[n] \/ failed THEN [ok |-> FALSE, w |-> w]
  ELSE [ok |-> TRUE, w |-> [w EXCEPT !.hv[n] = HvDown]]

\* supervisorctl start: exit 0 when the program is known and its process
\* runs afterwards (an already started program is not an error)
SupervisorStart(w, n, failed) ==
  IF ~w.supLoaded[n] \/ failed THEN [ok |-> FALSE, w |-> w]
  ELSE IF w.hv[n].st # "down" THEN [ok |-> TRUE, w |-> w]
  ELSE IF w.sock[n] THEN [ok |-> FALSE, w |-> w]
  ELSE [ok |-> TRUE, w |-> Spawn(w, n)]

\* ------------------------------------------------------------------------
\* VMLifecycle (lib/vm_lifecycle.py)
\* ------------------------------------------------------------------------

\* the calls in the order boot source, root drive, machine config
ConfigSteps_boot_first(vm_config) ==
  <<"boot", "drive", "machine", "tap", "eth0">>
  \o (IF vm_config.metadata # NoDoc /\ vm_config.mmds_tap # ""
      THEN <<"mmds_tap", "mmds0", "mmds_config", "mmds_put">>
      ELSE <<>>)
  \o <<"start">>

\* the calls of configure_and_start, in the order the code issues them
ConfigSteps(vm_config) ==
  <<"machine", "boot", "drive", "tap", "eth0">>
  \o (IF vm_config.metadata # NoDoc /\ vm_config.mmds_tap # ""
      THEN <<"mmds_tap", "mmds0", "mmds_config", "mmds_put">>
      ELSE <<>>)
  \o <<"start">>

\* one call of configure_and_start; failAt names the call that fails
ConfigStep(step, w, n, c, failAt) ==
  CASE step = "machine" ->
         set_machine_config(w, n, c.cpus, c.memory, failAt = "machine")
    [] step = "boot" ->
         set_boot_source(w, n, c.kernel_path, failAt = "boot")
    [] step = "drive" ->
         set_rootfs(w, n, c.rootfs_path, failAt = "drive")
    [] step = "tap" ->
         setup_tap_device_driver(w, c.tap_device, c.tap_ip, c.vm_ip,
                                 c.networkdriver, failAt)
    [] step = "eth0" ->
         set_network_interface(w, n, "eth0", c.tap_device, failAt = "eth0")
    [] step = "mmds_tap" ->
         setup_mmds_tap_device_driver(w, c.mmds_tap, c.networkdriver, failAt)
    [] step = "mmds0" ->
         set_network_interface(w, n, "mmds0", c.mmds_tap, failAt = "mmds0")
    [] step = "mmds_config" ->
         configure_mmds_interface(w, n, failAt = "mmds_config")
    [] step = "mmds_put" ->
         set_mmds_metadata(w, n, c.metadata, failAt = "mmds_put")
    [] step = "start" ->
         start_microvm(w, n, failAt = "start")

RECURSIVE RunConfigSteps(_, _, _, _, _, _)
\* the first failing call returns False and no later call is made; calls
\* are the calls made so far
RunConfigSteps(steps, w, n, c, failAt, calls) ==
  IF steps = <<>> THEN [ok |-> TRUE, w |-> w, at |-> "", calls |-> calls]
  ELSE LET r == ConfigStep(Head(steps), w, n, c, failAt)
       IN IF ~r.ok
          THEN [ok |-> FALSE, w |-> r.w, at |-> Head(steps),
                calls |-> Append(calls, Head(steps))]
          ELSE RunConfigSteps(Tail(steps), r.w, n, c, failAt,
                              Append(calls, Head(steps)))

configure_and_start(w, vm_config, failAt) ==
  RunConfigSteps(ConfigSteps(vm_config), w, vm_config.vm_name, vm_config,
                 failAt, <<>>)

\* an unlink that leaves the socket file where it is
UnlinkSocket_kept(w, n) == w

\* socket_file.unlink() when the file exists
UnlinkSocket(w, n) == [w EXCEPT !.sock[n] = FALSE]

max_retries == 10

\* the attempt of the retry loop from which on the spawned hypervisor
\* listens: never within the loop, at its last attempt, or at the first
ReadyAt(fault) ==
  IF fault = "notready" THEN max_retries + 1
  ELSE IF fault = "slow" THEN max_retries ELSE 1

\* a retry loop without its else branch: configuration goes on after the
\* last attempt
wait_for_socket_falling_through(w, n, attempt, readyAt) ==
  [ready |-> TRUE, attempts |-> IF readyAt < max_retries THEN readyAt
                                ELSE max_retries,
   w |-> IF readyAt <= max_retries THEN Listen(w, n) ELSE w]

RECURSIVE wait_for_socket(_, _, _, _)
\* the retry loop of create_vm_supervisor: each attempt sleeps, then looks
\* for the socket file and probes it; the loop breaks at the first attempt
\* that finds the hypervisor listening and gives up after max_retries
wait_for_socket(w, n, attempt, readyAt) ==
  IF attempt > max_retries
  THEN [ready |-> FALSE, attempts |-> max_retries, w |-> w]
  ELSE IF attempt < readyAt
  THEN wait_for_socket(w, n, attempt + 1, readyAt)
  ELSE IF Listen(w, n).sock[n] /\ check_socket_in_use(Listen(w, n), n)
  THEN [ready |-> TRUE, attempts |-> attempt, w |-> Listen(w, n)]
  ELSE wait_for_socket(Listen(w, n), n, attempt + 1, readyAt)

create_vm_supervisor(w, vm_config, fault) ==
  LET n == vm_config.vm_name
      conf == create_supervisor_config(w, n, fault = "supconf")
      reload == supervisor_reload(conf.w, fault = "reload")
      waited == wait_for_socket(reload.w, n, 1, ReadyAt(fault))
      cfg == configure_and_start(waited.w, vm_config, fault)
  IN IF ~conf.ok THEN [ok |-> FALSE, why |-> "supconf", w |-> conf.w]
     ELSE IF ~reload.ok THEN [ok |-> FALSE, why |-> "reload", w |-> reload.w]
     ELSE IF ~waited.ready
     THEN [ok |-> FALSE, why |-> "timeout", w |-> waited.w]
     ELSE IF ~cfg.ok THEN [ok |-> FALSE, why |-> cfg.at, w |-> cfg.w]
     ELSE [ok |-> TRUE, why |-> "", w |-> cfg.w]

\* cleanup() of create_vm_foreground
\* a cleanup that removes the socket file and leaves the interfaces
ForegroundCleanup_socket_only(w, n, tap_device, mmds_tap, networkdriver) ==
  IF w.sock[n] THEN UnlinkSocket(w, n) ELSE w

ForegroundCleanup(w, n, tap_device, mmds_tap, networkdriver) ==
  LET w1 == remove_tap_device_driver(w, tap_device, networkdriver, FALSE).w
      w2 == IF mmds_tap # ""
            THEN remove_tap_device_driver(w1, mmds_tap, networkdriver, FALSE).w
            ELSE w1
  IN IF w2.sock[n] THEN UnlinkSocket(w2, n) ELSE w2

\* the whole foreground run: launch, configure, wait for the hypervisor to
\* exit (or for SIGINT/SIGTERM), clean up
create_vm_foreground(w, vm_config, fault) ==
  LET n == vm_config.vm_name
      clean(x) == ForegroundCleanup(x, n, vm_config.tap_device,
                                    vm_config.mmds_tap,
                                    vm_config.networkdriver)
      spawned == Spawn(w, n)
      slept == IF fault = "notready" THEN spawned ELSE Listen(spawned, n)
      cfg == configure_and_start(slept, vm_config, fault)
      exited == [cfg.w EXCEPT !.hv[n] = HvDown]
  IN IF fault = "spawn"
     THEN \* Popen raises: caught, cleanup, and the function returns True
          [ok |-> TRUE, why |-> "spawn", w |-> clean(w)]
     ELSE IF ~cfg.ok
     THEN [ok |-> FALSE, why |-> cfg.at, w |-> clean(clean(exited))]
     ELSE IF fault = "interrupt"
     THEN \* the signal handler cleans up and ends the process
          [ok |-> FALSE, why |-> "interrupt", w |-> clean(clean(exited))]
     ELSE [ok |-> TRUE, why |-> "", w |-> clean(exited)]

\* interface names of an internal-mode create: generated, or validated and
\* reserved when supplied
resolve_tap_devices(w, args) ==
  LET first == IF args.tap_device = ""
               THEN LET r == find_next_available_tap_device(w, {})
                    IN [ok |-> TRUE, name |-> r.name, allocated |-> r.allocated]
               ELSE [ok |-> validate_tap_device_available(w, {}, args.tap_device),
                     name |-> args.tap_device,
                     allocated |-> {args.tap_device}]
      second == IF args.mmds_tap = ""
                THEN LET r == find_next_available_tap_device(w, first.allocated)
                     IN [ok |-> TRUE, name |-> r.name]
                ELSE [ok |-> validate_tap_device_available(w, first.allocated,
                                                           args.mmds_tap),
                      name |-> args.mmds_tap]
  IN IF ~first.ok THEN [ok |-> FALSE, tap_device |-> "", mmds_tap |-> ""]
     ELSE IF ~second.ok THEN [ok |-> FALSE, tap_device |-> "", mmds_tap |-> ""]
     ELSE [ok |-> TRUE, tap_device |-> first.name, mmds_tap |-> second.name]

\* in external mode the supplied names are used as they are
prepare_network_devices(w, args) ==
  IF args.networkdriver = "external"
  THEN [ok |-> TRUE, tap_device |-> args.tap_device,
        mmds_tap |-> args.mmds_tap]
  ELSE resolve_tap_devices(w, args)

\* what a create returns: its outcome, the host state it leaves and the
\* interface names it settled on
CreateOut(res, why, w, net) ==
  [res |-> res, why |-> why, w |-> w, tap_device |-> net.tap_device,
   mmds_tap |-> net.mmds_tap]

\* create_vm after the launch: a failed launch returns False, a successful
\* one saves the Record, and a failed save is a warning
\* a create that takes the VM down again when its Record cannot be written
create_vm_save_rolling_back(args, vm_config, net, made, fault) ==
  IF ~made.ok
  THEN CreateOut(IF made.why = "interrupt" THEN "exit" ELSE "fail",
                 made.why, made.w, net)
  ELSE IF fault = "save"
  THEN CreateOut("fail", "save",
                 [made.w EXCEPT !.hv[args.name] = HvDown,
                                !.sock[args.name] = FALSE], net)
  ELSE CreateOut("ok", made.why,
                 save_vm_config(made.w, args.name, vm_config.kernel_path,
                                vm_config.rootfs_path, vm_config.tap_device,
                                vm_config.mmds_tap, vm_config.vm_ip,
                                vm_config.tap_ip, vm_config.cpus,
                                vm_config.memory, vm_config.hostname,
                                vm_config.base_image,
                                vm_config.networkdriver, FALSE).w, net)

create_vm_save(args, vm_config, net, made, fault) ==
  LET saved == save_vm_config(made.w, args.name, vm_config.kernel_path,
                              vm_config.rootfs_path, vm_config.tap_device,
                              vm_config.mmds_tap, vm_config.vm_ip,
                              vm_config.tap_ip, vm_config.cpus,
                              vm_config.memory, vm_config.hostname,
                              vm_config.base_image, vm_config.networkdriver,
                              fault = "save")
  IN IF ~made.ok
     THEN CreateOut(IF made.why = "interrupt" THEN "exit" ELSE "fail",
                    made.why, made.w, net)
     ELSE IF ~saved.ok THEN CreateOut("ok", "save", saved.w, net)
     ELSE CreateOut("ok", made.why, saved.w, net)

\* create_vm from the socket check on: refuse a socket in use, remove a
\* stale socket file, launch in the foreground or under supervisord
create_vm_launch(args, vm_config, net, w1, fault) ==
  LET w2 == IF w1.sock[args.name] THEN UnlinkSocket(w1, args.name) ELSE w1
  IN IF check_socket_in_use(w1, args.name)
     THEN CreateOut("fail", "socket_in_use", w1, net)
     ELSE IF fault = "unlink" /\ w1.sock[args.name]
     THEN CreateOut("crash", "unlink", w1, net)
     ELSE create_vm_save(args, vm_config, net,
                         IF vm_config.foreground
                         THEN create_vm_foreground(w2, vm_config, fault)
                         ELSE create_vm_supervisor(w2, vm_config, fault),
                         fault)

\* create_vm with the outcomes of its network and filesystem steps
create_vm_prepared(w, args, net, fsys, fault) ==
  LET hostname == IF args.hostname # "" THEN args.hostname ELSE args.name
      metadata == parse_metadata(args.metadata, args.tap_ip, args.vm_ip,
                                 hostname)
      vm_config ==
        [vm_name |-> args.name, kernel_path |-> fsys.kernel_path,
         rootfs_path |-> fsys.rootfs_path, tap_device |-> net.tap_device,
         tap_ip |-> args.tap_ip, vm_ip |-> args.vm_ip, cpus |-> args.cpus,
         memory |-> args.memory, metadata |-> metadata,
         mmds_tap |-> net.mmds_tap, foreground |-> args.foreground,
         hostname |-> hostname, base_image |-> args.image,
         networkdriver |-> args.networkdriver]
  IN IF ~validate_create_parameters(args)
     THEN CreateOut("fail", "params", w, net)
     ELSE IF ~validate_external_network_parameters(args)
     THEN CreateOut("fail", "external_params", w, net)
     ELSE IF ~net.ok THEN CreateOut("fail", "network", w, net)
     ELSE IF fsys.kernel_path = ""
     THEN CreateOut("fail",
                    IF w.rootfs[RootfsPath(args.name)] # "" /\ ~args.force_rootfs
                    THEN "rootfs_exists" ELSE "rootfs_build",
                    fsys.w, net)
     ELSE create_vm_launch(args, vm_config, net, fsys.w, fault)

\* a create that builds the root filesystem before it settles the
\* interface names
create_vm_rootfs_first(w, args, fault) ==
  IF validate_create_parameters(args)
  THEN create_vm_prepared(prepare_filesystem(w, args, fault = "rootfs").w,
                          args, prepare_network_devices(w, args),
                          prepare_filesystem(w, args, fault = "rootfs"), fault)
  ELSE CreateOut("fail", "params", w, prepare_network_devices(w, args))

create_vm(w, args, fault) ==
  create_vm_prepared(w, args, prepare_network_devices(w, args),
                     prepare_filesystem(w, args, fault = "rootfs"), fault)

stop_vm(w, vm_name, fault) ==
  LET stopped == SupervisorStop(w, vm_name, fault = "supervisor")
  IN IF ~stopped.ok THEN [res |-> "fail", why |-> "supervisor", w |-> w]
     ELSE IF stopped.w.sock[vm_name]
     THEN IF fault = "unlink"
          THEN [res |-> "fail", why |-> "unlink", w |-> stopped.w]
          ELSE [res |-> "ok", why |-> "",
                w |-> UnlinkSocket(stopped.w, vm_name)]
     ELSE [res |-> "ok", why |-> "", w |-> stopped.w]

\* a check of the required fields that leaves out the metadata interface
RequiredFields_but_mmds_tap(cache_data) ==
  /\ cache_data.kernel # ""
  /\ cache_data.rootfs # ""
  /\ cache_data.tap_device # ""
  /\ cache_data.vm_ip # ""
  /\ cache_data.tap_ip # ""
  /\ cache_data.cpus # 0
  /\ cache_data.memory # 0

RequiredFields(cache_data) ==
  /\ cache_data.kernel # ""
  /\ cache_data.rootfs # ""
  /\ cache_data.tap_device # ""
  /\ cache_data.mmds_tap # ""
  /\ cache_data.vm_ip # ""
  /\ cache_data.tap_ip # ""
  /\ cache_data.cpus # 0
  /\ cache_data.memory # 0

\* a start that drops the Record of a VM it could not start
start_vm_forgetting(w, vm_name, fault) ==
  IF load_vm_config(w, vm_name) = <<>>
  THEN [res |-> "fail", why |-> "no_record", w |-> w]
  ELSE [res |-> "fail", why |-> "supervisor",
        w |-> [w EXCEPT !.cache[vm_name] = NoRecord]]

start_vm(w, vm_name, fault) ==
  LET loaded == load_vm_config(w, vm_name)
      cache_data == loaded[1]
      w1 == IF w.sock[vm_name] THEN UnlinkSocket(w, vm_name) ELSE w
      started == SupervisorStart(w1, vm_name, fault = "supervisor")
      slept == IF fault = "notready" THEN started.w
               ELSE Listen(started.w, vm_name)
      hostname == IF cache_data.hostname # "" THEN cache_data.hostname
                  ELSE vm_name
      metadata == parse_metadata(NoDoc, cache_data.tap_ip, cache_data.vm_ip,
                                 hostname)
      vm_config ==
        [vm_name |-> vm_name, kernel_path |-> cache_data.kernel,
         rootfs_path |-> cache_data.rootfs,
         tap_device |-> cache_data.tap_device, tap_ip |-> cache_data.tap_ip,
         vm_ip |-> cache_data.vm_ip, cpus |-> cache_data.cpus,
         memory |-> cache_data.memory, metadata |-> metadata,
         mmds_tap |-> cache_data.mmds_tap, hostname |-> hostname,
         networkdriver |-> IF cache_data.networkdriver # ""
                           THEN cache_data.networkdriver ELSE "internal"]
      cfg == configure_and_start(slept, vm_config, fault)
  IN IF loaded = <<>> THEN [res |-> "fail", why |-> "no_record", w |-> w]
     ELSE IF ~RequiredFields(cache_data)
     THEN [res |-> "fail", why |-> "missing_fields", w |-> w]
     ELSE IF check_socket_in_use(w, vm_name)
     THEN [res |-> "fail", why |-> "socket_in_use", w |-> w]
     ELSE IF fault = "unlink" /\ w.sock[vm_name]
     THEN [res |-> "crash", why |-> "unlink", w |-> w]
     ELSE IF ~started.ok
     THEN [res |-> "fail", why |-> "supervisor", w |-> started.w]
     ELSE IF ~cfg.ok THEN [res |-> "fail", why |-> cfg.at, w |-> cfg.w]
     ELSE [res |-> "ok", why |-> "", w |-> cfg.w]

\* restart_vm after its start
restart_vm_started(started) ==
  IF started.res # "ok"
  THEN [res |-> started.res, why |-> "start", w |-> started.w]
  ELSE [res |-> "ok", why |-> "", w |-> started.w]

\* a restart that starts whatever its stop returned
restart_vm_stopped_anyway(stopped, vm_name, startFault) ==
  restart_vm_started(start_vm(stopped.w, vm_name, startFault))

\* restart_vm after its stop
restart_vm_stopped(stopped, vm_name, startFault) ==
  IF stopped.res # "ok"
  THEN [res |-> "fail", why |-> "stop", w |-> stopped.w]
  ELSE restart_vm_started(start_vm(stopped.w, vm_name, startFault))

\* stop, then start; each half has its own outcome
restart_vm(w, vm_name, stopFault, startFault) ==
  restart_vm_stopped(stop_vm(w, vm_name, stopFault), vm_name, startFault)

\* a destroy that does not look at the socket
destroy_running_unchecked(w, vm_name) == FALSE

\* destroy refuses a VM whose socket is in use
destroy_running_check(w, vm_name) == check_socket_in_use(w, vm_name)

\* answer is the operator's reply at the prompt when force_destroy is off
\* a destroy that sweeps up what it finds when there is no Record
destroy_vm_sweeping(w, vm_name, force_destroy, answer, fault) ==
  IF destroy_running_check(w, vm_name)
  THEN [res |-> "fail", why |-> "running", w |-> w]
  ELSE [res |-> "fail", why |-> "no_record",
        w |-> remove_supervisor_config(UnlinkSocket(w, vm_name), vm_name,
                                       FALSE).w]

destroy_vm(w, vm_name, force_destroy, answer, fault) ==
  LET loaded == load_vm_config(w, vm_name)
      cache_data == loaded[1]
      tap_device == cache_data.tap_device
      mmds_tap == cache_data.mmds_tap
      rootfs_path == cache_data.rootfs
      networkdriver == IF cache_data.networkdriver # ""
                       THEN cache_data.networkdriver ELSE "internal"
      w1 == IF w.sock[vm_name] THEN UnlinkSocket(w, vm_name) ELSE w
      tap == IF tap_device # ""
             THEN remove_tap_device_driver(w1, tap_device, networkdriver,
                                           fault = "tap_del")
             ELSE [ok |-> TRUE, w |-> w1]
      mmds == IF mmds_tap # ""
              THEN remove_tap_device_driver(tap.w, mmds_tap, networkdriver,
                                            fault = "mmds_del")
              ELSE [ok |-> TRUE, w |-> tap.w]
      w3 == mmds.w
      hasRootfs == rootfs_path # "" /\ w3.rootfs[rootfs_path] # ""
      w4 == IF hasRootfs THEN [w3 EXCEPT !.rootfs[rootfs_path] = ""] ELSE w3
      conf == remove_supervisor_config(w4, vm_name, fault = "supconf")
      reload == supervisor_reload(conf.w, fault = "reload")
      removed == remove_vm_config_cache(reload.w, vm_name, fault = "cache")
  IN IF destroy_running_check(w, vm_name)
     THEN [res |-> "fail", why |-> "running", w |-> w]
     ELSE IF loaded = <<>>
     THEN [res |-> "fail", why |-> "no_record", w |-> w]
     ELSE IF ~force_destroy /\ answer # "yes"
     THEN [res |-> "fail", why |-> "declined", w |-> w]
     ELSE IF fault = "unlink" /\ w.sock[vm_name]
     THEN [res |-> "crash", why |-> "unlink", w |-> w]
     ELSE IF hasRootfs /\ fault = "rootfs_del"
     THEN [res |-> "fail", why |-> "rootfs_del", w |-> w3]
     ELSE IF ~conf.ok THEN [res |-> "fail", why |-> "supconf", w |-> conf.w]
     ELSE IF ~reload.ok THEN [res |-> "fail", why |-> "reload", w |-> reload.w]
     ELSE [res |-> "ok",
           why |-> IF ~tap.ok THEN "tap_del"
                   ELSE IF ~mmds.ok THEN "mmds_del"
                   ELSE IF ~removed.ok THEN "cache" ELSE "",
           w |-> removed.w]

\* ------------------------------------------------------------------------
\* VMDiscovery (lib/vm_discovery.py)
\* ------------------------------------------------------------------------

\* a VM that counts as running as soon as its socket file exists
is_running_by_socket_file(w, n, noConfig) == w.sock[n]

\* a VM is running iff its socket file exists, the probe connects and a
\* configuration document comes back; noConfig are the VMs whose
\* GET /vm/config is not answered with 200
is_running(w, n, noConfig) ==
  /\ w.sock[n]
  /\ check_socket_in_use(w, n)
  /\ n \notin noConfig
  /\ get_vm_config(w, n) # <<>>

\* a discovery that reports the names of the cache files
discover_all_vms_probed_unloaded(w, noConfig) ==
  {[name |-> n,
    state |-> IF is_running(w, n, noConfig) THEN "running" ELSE "stopped"] :
   n \in get_all_cached_vms(w)}

\* one entry per cached VM whose record loads
discover_all_vms_probed(w, noConfig) ==
  {[name |-> n,
    state |-> IF is_running(w, n, noConfig) THEN "running" ELSE "stopped"] :
   n \in {m \in get_all_cached_vms(w) : load_vm_config(w, m) # <<>>}}

\* a loop that gives up at the first cache file that does not load
RECURSIVE discover_all_vms_loop_aborting(_, _, _, _)
discover_all_vms_loop_aborting(w, files, noConfig, all_vms) ==
  IF files = <<>> THEN all_vms
  ELSE IF load_vm_config(w, Head(files)) = <<>> THEN all_vms
  ELSE discover_all_vms_loop_aborting(w, Tail(files), noConfig,
         Append(all_vms,
                [name |-> Head(files),
                 state |-> IF is_running(w, Head(files), noConfig)
                           THEN "running" ELSE "stopped"]))

\* the loop of the pass over the cache files in the order files in which
\* the directory lists them: a file that does not load is skipped
\* (continue), every other one appends its entry to all_vms
RECURSIVE discover_all_vms_loop(_, _, _, _)
discover_all_vms_loop(w, files, noConfig, all_vms) ==
  IF files = <<>> THEN all_vms
  ELSE IF load_vm_config(w, Head(files)) = <<>>
  THEN discover_all_vms_loop(w, Tail(files), noConfig, all_vms)
  ELSE discover_all_vms_loop(w, Tail(files), noConfig,
         Append(all_vms,
                [name |-> Head(files),
                 state |-> IF is_running(w, Head(files), noConfig)
                           THEN "running" ELSE "stopped"]))

\* the pass in which every configuration request is answered
discover_all_vms(w) == discover_all_vms_probed(w, {})

\* a pass that removes the socket files nothing listens on
list_vms_cleaning(w, noConfig) ==
  [res |-> "ok", vms |-> discover_all_vms_probed(w, noConfig),
   w |-> [w EXCEPT !.sock = [n \in Names |-> Connects(w, n)]]]

\* fcm list: the discovery pass and the table of what it found; the pass
\* reads the cache and the sockets, the table reads interface addresses
\* and the metadata service
list_vms(w, noConfig) ==
  [res |-> "ok", vms |-> discover_all_vms_probed(w, noConfig), w |-> w]

\* ------------------------------------------------------------------------
\* Invocations
\* ------------------------------------------------------------------------

\* the calls of configure_and_start that can fail
ConfigFaults ==
  {"machine", "boot", "drive", "tap_create", "tap_addr", "tap_up",
   "tap_route", "eth0", "mmds_create", "mmds_up", "mmds0", "mmds_config",
   "mmds_put", "start"}

\* what can go wrong in one invocation (at most one thing per invocation)
CreateFaults ==
  {"none", "rootfs", "unlink", "supconf", "reload", "notready", "spawn",
   "interrupt", "save"} \cup ConfigFaults

StopFaults == {"none", "supervisor", "unlink"}

StartFaults == {"none", "unlink", "supervisor", "notready"} \cup ConfigFaults

DestroyFaults ==
  {"none", "unlink", "tap_del", "mmds_del", "rootfs_del", "supconf",
   "reload", "cache"}

\* --networkdriver, --tap-device and --mmds-tap as given on the command line
NetArgs ==
  { [drv |-> "internal", tap |-> "", mmds |-> ""],
    [drv |-> "external", tap |-> "ext0", mmds |-> "ext1"] }

\* command lines that lack a required parameter
BadArgs ==
  { [drv |-> "internal", tap |-> "", mmds |-> "", cpus |-> 0],
    [drv |-> "external", tap |-> "", mmds |-> "", cpus |-> 1] }

\* the command line of an internal-mode create that names no interface
NoNames == [drv |-> "internal", tap |-> "", mmds |-> ""]

CreateArgs(n, p, net, cpus, force, foreground) ==
  [name |-> n, kernel |-> "vmlinux", image |-> p.image, rootfs_size |-> "1G",
   tap_ip |-> p.tap_ip, vm_ip |-> p.vm_ip, cpus |-> cpus,
   memory |-> p.memory, tap_device |-> net.tap, mmds_tap |-> net.mmds,
   metadata |-> NoDoc, hostname |-> "", foreground |-> foreground,
   force_rootfs |-> force, networkdriver |-> net.drv]

SetWorld(w) ==
  /\ cache' = w.cache
  /\ rootfs' = w.rootfs
  /\ sock' = w.sock
  /\ hv' = w.hv
  /\ dev' = w.dev
  /\ route' = w.route
  /\ supConf' = w.supConf
  /\ supLoaded' = w.supLoaded

NoHist ==
  [trail |-> "", created |-> FALSE, synced |-> FALSE, recorded |-> FALSE,
   warn |-> "", mode |-> "", cpus |-> 0, memory |-> 0, vm_ip |-> "",
   networkdriver |-> "", tap_device |-> "", mmds_tap |-> "",
   metadata |-> NoDoc, listed |-> ""]

\* the scenario a name is in, as far as the last invocations on it tell
Trail(old, event) ==
  CASE event = "create_ok" -> "create"
    [] event = "create_refused" /\ old = "create" -> "create_create"
    [] event = "destroy_refused" /\ old = "create" -> "create_destroy"
    [] event = "stop_ok" /\ old = "create" -> "create_stop"
    [] event = "destroy_ok" /\ old = "create_stop" -> "create_stop_destroy"
    [] event = "kill" -> "kill"
    [] event = "stop_ok" /\ old = "kill" -> "kill_stop"
    [] event = "start_ok" /\ old = "kill_stop" -> "kill_stop_start"
    [] event = "start_ok" /\ old = "kill" -> "kill_start"
    [] event = "restart_ok" /\ old = "create" -> "create_restart"
    [] event = "list" /\ old = "create" -> "create_list"
    [] event = "list" /\ old = "kill" -> "kill_list"
    [] event = "garble" -> "garble"
    [] event = "create_network" -> "collide"
    [] event = "create_build" -> "build"
    [] event = "destroy_norecord" /\ old = "garble" -> "garble_destroy"
    [] event = "strip" -> "strip"
    [] event = "start_missing" /\ old = "strip" -> "strip_start"
    [] event = "list" /\ old = "garble" -> "garble_list"
    [] OTHER -> ""

\* what a create that returned success leaves in the history of its name:
\* what it was given, the names it used and what it warned about
CreatedHist(h, args, r) ==
  [trail |-> "create", created |-> TRUE, synced |-> r.why # "save",
   recorded |-> IF r.why = "save" THEN h.recorded ELSE TRUE,
   warn |-> r.why,
   mode |-> IF args.foreground THEN "foreground" ELSE "supervisor",
   cpus |-> args.cpus, memory |-> args.memory, vm_ip |-> args.vm_ip,
   networkdriver |-> args.networkdriver,
   tap_device |-> r.tap_device, mmds_tap |-> r.mmds_tap,
   metadata |-> args.metadata, listed |-> ""]

\* the host state and the history that a create with outcome r leaves
Created(n, args, r) ==
  /\ SetWorld(r.w)
  /\ hist' = [hist EXCEPT ![n] =
                IF r.res = "ok" THEN CreatedHist(@, args, r)
                ELSE [@ EXCEPT !.trail =
                        Trail(@, IF r.why = "rootfs_exists"
                                 THEN "create_refused"
                                 ELSE IF r.why = "network"
                                 THEN "create_network"
                                 ELSE IF r.why = "rootfs_build"
                                 THEN "create_build" ELSE "")]]

\* the interface names are among those of the model
InDevs(names) ==
  names.ok => {names.tap_device, names.mmds_tap} \subseteq Devs \cup {""}

\* one create invocation with its outcome
CreateStep(n, args, fault) ==
  /\ InDevs(prepare_network_devices(World, args))
  /\ args.foreground => hv[n].st = "down"
  /\ Created(n, args, create_vm(World, args, fault))

\* fcm create --name n ...
Create(n, faults, forces) ==
  \E p \in Profiles, net \in NetArgs, force \in forces,
     foreground \in BOOLEAN, fault \in faults :
    CreateStep(n, CreateArgs(n, p, net, p.cpus, force, foreground), fault)

\* fcm create --name n with a required parameter missing
CreateBad(n) ==
  \E p \in Profiles, bad \in BadArgs :
    CreateStep(n, CreateArgs(n, p, bad, bad.cpus, FALSE, FALSE), "none")

\* a stop, start or restart: a success has no warning and moves the
\* scenario on, a failure ends the scenario
DoneHist(h, r, event) ==
  IF r.res = "ok" THEN [h EXCEPT !.trail = Trail(@, event), !.warn = ""]
  ELSE [h EXCEPT !.trail = Trail(@, IF r.why = "missing_fields"
                                    THEN "start_missing" ELSE "")]

\* the host state and the history that a stop, start or restart with
\* outcome r leaves
Done(n, r, event) ==
  /\ SetWorld(r.w)
  /\ hist' = [hist EXCEPT ![n] = DoneHist(@, r, event)]

\* fcm stop --name n
Stop(n, faults) ==
  \E fault \in faults :
    Done(n, stop_vm(World, n, fault), "stop_ok")

\* fcm start --name n
Start(n, faults) ==
  \E fault \in faults :
    Done(n, start_vm(World, n, fault), "start_ok")

\* fcm restart --name n
Restart(n, stopFaults, startFaults) ==
  \E stopFault \in stopFaults, startFault \in startFaults :
    Done(n, restart_vm(World, n, stopFault, startFault), "restart_ok")

DestroyHist(h, r) ==
  IF r.res = "ok"
  THEN [NoHist EXCEPT !.trail = Trail(h.trail, "destroy_ok"), !.warn = r.why,
                      !.networkdriver = h.networkdriver,
                      !.recorded = IF r.why = "cache" THEN h.recorded
                                   ELSE FALSE]
  ELSE [h EXCEPT !.trail =
          Trail(@, IF r.why = "running" THEN "destroy_refused"
                   ELSE IF r.why = "no_record" THEN "destroy_norecord"
                   ELSE "")]

\* the host state and the history that a destroy with outcome r leaves
Destroyed(n, r) ==
  /\ SetWorld(r.w)
  /\ hist' = [hist EXCEPT ![n] = DestroyHist(@, r)]

\* fcm destroy --name n [--force-destroy]
Destroy(n, faults) ==
  \E force \in BOOLEAN, fault \in faults :
    Destroyed(n, destroy_vm(World, n, force, "yes", fault))

\* fcm destroy --name n, declined at the prompt
DestroyDeclined(n) ==
  Destroyed(n, destroy_vm(World, n, FALSE, "no", "none"))

\* the hypervisor that supervisord spawned starts to listen
HvReady(n) ==
  /\ hv[n].st = "starting"
  /\ SetWorld(Listen(World, n))
  /\ UNCHANGED hist

\* the hypervisor process is killed out-of-band; its socket file stays
HvKill(n) ==
  /\ hv[n].st = "up"
  /\ hv' = [hv EXCEPT ![n] = HvDown]
  /\ hist' = [hist EXCEPT ![n].trail =
                IF hv[n].started THEN Trail(@, "kill") ELSE ""]
  /\ UNCHANGED <<cache, rootfs, sock, dev, route, supConf, supLoaded>>

\* two interfaces provisioned by someone else exist from the start
Init ==
  /\ cache = [n \in Names |-> NoRecord]
  /\ rootfs = [f \in RootfsPaths |-> ""]
  /\ sock = [n \in Names |-> FALSE]
  /\ hv = [n \in Names |-> HvDown]
  /\ dev = [d \in Devs |->
              IF d \in ExtNames
              THEN [present |-> TRUE, ips |-> {}, up |-> TRUE]
              ELSE NoDev]
  /\ route = [ip \in VmIps |-> ""]
  /\ supConf = [n \in Names |-> FALSE]
  /\ supLoaded = [n \in Names |-> FALSE]
  /\ hist = [n \in Names |-> NoHist]

\* the faults that the lifecycle scenarios take as steps; what a handler
\* does under every other fault is checked on each state they reach
LifeCreateFaults == {"none", "save"}

LifeStopFaults == {"none", "supervisor"}

LifeStartFaults == {"none", "notready", "start"}

LifeDestroyFaults == {"none", "cache", "tap_del", "rootfs_del"}

\* all invocations on one VM name
Next ==
  \/ Create("vm1", LifeCreateFaults, {FALSE})
  \/ CreateBad("vm1")
  \/ Stop("vm1", LifeStopFaults)
  \/ Start("vm1", LifeStartFaults)
  \/ Restart("vm1", {"none"}, {"none", "start"})
  \/ Destroy("vm1", LifeDestroyFaults)
  \/ DestroyDeclined("vm1")
  \/ HvReady("vm1")
  \/ HvKill("vm1")

Spec == Init /\ [][Next]_vars

\* starting and stopping a VM that was created, killed or destroyed
NextRun ==
  \/ Create("vm1", LifeCreateFaults, {FALSE})
  \/ Stop("vm1", LifeStopFaults)
  \/ Start("vm1", LifeStartFaults)
  \/ Restart("vm1", {"none"}, {"none", "start"})
  \/ Destroy("vm1", LifeDestroyFaults)
  \/ HvReady("vm1")
  \/ HvKill("vm1")

SpecRun == Init /\ [][NextRun]_vars

\* ------------------------------------------------------------------------
\* Properties
\* ------------------------------------------------------------------------

\* the control socket of n is live: the file exists and a process serves it
Live(n) == sock[n] /\ hv[n].st = "up"

\* C1: destroy invoked while the VM's control socket is live returns
\* failure and removes nothing: Record, rootfs file, socket file, supervisor
\* config and network interfaces are as before, whatever the flags, the
\* answer at the prompt, and whatever else would have gone wrong
C1_DestroyRefusedWhileLive ==
  \A n \in Names, force \in BOOLEAN, answer \in {"yes", "no"},
     fault \in DestroyFaults :
    Live(n) =>
      LET r == destroy_vm(World, n, force, answer, fault)
      IN r.res = "fail" /\ r.why = "running" /\ r.w = World

\* a destroy right after a successful create was refused, and the VM and
\* its Record are still there
C1_Witness ==
  /\ hist["vm1"].trail = "create_destroy"
  /\ Live("vm1")
  /\ cache["vm1"].present
  /\ rootfs[RootfsPath("vm1")] # ""


\* the interfaces a create was given or generated, when it drove them itself
OwnTaps(n) ==
  IF hist[n].networkdriver = "internal"
  THEN {hist[n].tap_device, hist[n].mmds_tap} \ {""}
  ELSE {}

RecordTaps(n) == {cache[n].tap_device, cache[n].mmds_tap} \ {""}

\* a destroy that was not refused and did not die on the socket file
ReachedRemoval(r) ==
  r.why \notin {"running", "no_record", "declined", "unlink"}

C5_RecordIffCreated ==
  \A n \in Names : cache[n].present <=> hist[n].created

\* C5 amended: a Record exists for a name if and only if a create for it
\* has returned success without the warning that the Record could not be
\* saved, and no destroy for it has since returned success without the
\* warning that the Record could not be removed
C5_RecordIffSavedAndNotRemoved ==
  \A n \in Names : cache[n].present <=> hist[n].recorded

\* a create has returned success with the warning and there is no Record
C5_Witness ==
  /\ hist["vm1"].created
  /\ hist["vm1"].warn = "save"
  /\ ~hist["vm1"].recorded
  /\ ~cache["vm1"].present
  /\ Live("vm1")

\* C7: destroy removes the Record last and only when every cleanup step
\* succeeded: when the socket removal, the removal of either interface, the
\* rootfs deletion, the supervisor-config removal or the supervisor reload
\* fails, the Record is still there when destroy returns
C7_RecordKeptWhenCleanupFails ==
  \A n \in Names, force \in BOOLEAN,
     fault \in {"unlink", "tap_del", "mmds_del", "rootfs_del", "supconf",
                "reload"} :
    cache[n].present =>
      LET r == destroy_vm(World, n, force, "yes", fault)
      IN r.why = fault => r.w.cache[n].present

\* the hypervisor of n in world w serves a booted guest
Running(w, n) == Connects(w, n) /\ w.hv[n].started

\* the live configuration of n in world w is what the last successful
\* create of n was given: vCPU count, memory size and guest IP
AsCreated(w, n) ==
  /\ w.hv[n].vcpu_count = hist[n].cpus
  /\ w.hv[n].mem_size_mib = hist[n].memory
  /\ "network_config" \in DOMAIN w.hv[n].mmds
  /\ w.hv[n].mmds["network_config"].ip = hist[n].vm_ip

\* C8 as stated: after the hypervisor of a created VM was killed, discovery
\* lists the VM as stopped, and after a stop and a start that followed the
\* VM runs with the vCPU count, memory size and guest IP given at create
C8_KillStopStartRestores ==
  \A n \in Names :
    /\ hist[n].created /\ hist[n].trail = "kill" =>
         [name |-> n, state |-> "stopped"] \in discover_all_vms(World)
    /\ hist[n].created /\ hist[n].trail = "kill_stop_start" =>
         Running(World, n) /\ AsCreated(World, n)

\* C8 amended: when the create had written its Record, then after the
\* hypervisor was killed discovery lists the VM as stopped, and after a
\* stop a start that meets no failure returns success, changes no Record,
\* and leaves the VM running with the vCPU count, memory size and guest IP
\* given at create; so does every start that returns success. When the
\* create could not write its Record, start works from whatever Record is
\* there, or fails for want of one
C8_KillStopStartRestoresSaved ==
  \A n \in Names :
    /\ hist[n].synced /\ hist[n].trail = "kill" =>
         [name |-> n, state |-> "stopped"] \in discover_all_vms(World)
    /\ hist[n].synced /\ hist[n].trail = "kill_stop" =>
         /\ start_vm(World, n, "none").res = "ok"
         /\ \A fault \in StartFaults :
              LET r == start_vm(World, n, fault)
              IN r.res = "ok" =>
                   /\ Running(r.w, n)
                   /\ AsCreated(r.w, n)
                   /\ r.w.cache = cache
    /\ hist[n].synced /\ hist[n].trail = "kill_stop_start" =>
         Running(World, n) /\ AsCreated(World, n)

\* a VM with two vCPUs was killed, stopped and started, and runs again
C8_Witness ==
  /\ hist["vm1"].trail = "kill_stop_start"
  /\ hist["vm1"].synced
  /\ hist["vm1"].cpus = 2
  /\ Running(World, "vm1")
  /\ hv["vm1"].vcpu_count = 2

\* the live vCPU count and memory size of n in world w are those of its
\* Record
AsRecorded(w, n) ==
  /\ w.cache[n].present
  /\ w.hv[n].vcpu_count = w.cache[n].cpus
  /\ w.hv[n].mem_size_mib = w.cache[n].memory

\* C9 as stated: whenever a VM runs, its live vCPU count and memory size
\* are the cpus and memory of its Record, and the guest IP of the Record
\* is the guest IP given at create
C9_LiveEqualsRecord ==
  \A n \in Names :
    Running(World, n) =>
      /\ AsRecorded(World, n)
      /\ hist[n].created => cache[n].vm_ip = hist[n].vm_ip

\* C9 amended: whenever a VM runs, its live vCPU count and memory size are
\* the cpus and memory of its Record, unless it runs since a create that
\* warned that it could not save the Record; the guest IP of the Record is
\* the guest IP given at create when that create wrote the Record; and
\* every start that returns success leaves the VM running with the vCPU
\* count and memory size of the Record
C9_LiveEqualsRecordUnlessUnsaved ==
  \A n \in Names :
    /\ Running(World, n) /\ hist[n].warn # "save" => AsRecorded(World, n)
    /\ hist[n].synced =>
         cache[n].present /\ cache[n].vm_ip = hist[n].vm_ip
    /\ \A fault \in StartFaults :
         LET r == start_vm(World, n, fault)
         IN r.res = "ok" => Running(r.w, n) /\ AsRecorded(r.w, n)

\* a VM runs with the two vCPUs and 256 MiB of its Record after a start
C9_Witness ==
  /\ Running(World, "vm1")
  /\ hist["vm1"].trail = "kill_stop_start"
  /\ cache["vm1"].cpus = 2
  /\ AsRecorded(World, "vm1")
  /\ cache["vm1"].vm_ip = hist["vm1"].vm_ip

\* the network parameters a repeated create can carry: those of NetArgs, and
\* an internal-mode create that names its primary interface itself
DupNetArgs ==
  NetArgs \cup {[drv |-> "internal", tap |-> TapName(TapPrefix, 0), mmds |-> ""]}

\* faults that can act no later than the rootfs step of a create, and the
\* fault of its last step
DupFaults == {"none", "rootfs", "save"}

\* the outcome of a create of n without the force-rootfs flag
DupCreate(n, p, net, foreground, fault) ==
  create_vm(World, CreateArgs(n, p, net, p.cpus, FALSE, foreground), fault)

Stale(w, n) == w.sock[n] /\ ~Connects(w, n)

\* the steps of a create or a start that come before its socket check
BeforeSocketCheck ==
  {"params", "external_params", "network", "rootfs_exists", "rootfs_build",
   "no_record", "missing_fields"}

\* what can go wrong in a create at its socket check and in the launch
\* that follows it
StaleFaults == {"none", "unlink", "notready"}

\* the outcome r of a create or start of n that met a stale socket file: it
\* was not refused over the socket, and once it was past the steps before
\* the socket check and the removal did not fail, the stale file is gone
\* (a socket file there is the one of the hypervisor that was launched)
PastStaleSocket(r, n) ==
  /\ r.why # "socket_in_use"
  /\ r.why \notin BeforeSocketCheck \cup {"unlink"} => ~Stale(r.w, n)

\* the outcome r of a create or start of n that met a live socket: refused
\* over the socket once it was past the steps before the socket check,
\* with the host state left as it was
RefusedLiveSocket(r, n) ==
  r.why \notin BeforeSocketCheck =>
    r.res = "fail" /\ r.why = "socket_in_use" /\ Connects(r.w, n)

\* C11: a create or a start that finds a socket file on which nothing
\* listens deletes the file and goes on to launch the hypervisor, and does
\* not fail as 'already in use'; with nothing else going wrong a start
\* then succeeds; a create or a start is refused over the socket exactly
\* when the socket is live
C11_StaleSocketRemoved ==
  \A n \in Names :
    /\ \A fault \in StartFaults :
         LET r == start_vm(World, n, fault)
         IN /\ Stale(World, n) => PastStaleSocket(r, n)
            /\ Connects(World, n) => RefusedLiveSocket(r, n)
            /\ r.why = "socket_in_use" => Connects(World, n)
    /\ Stale(World, n) /\ cache[n].present /\ supLoaded[n] =>
         LET r == start_vm(World, n, "none")
         IN r.res = "ok" /\ Running(r.w, n)
    /\ \A p \in Profiles, net \in NetArgs, foreground \in BOOLEAN,
          fault \in StaleFaults :
         LET args == CreateArgs(n, p, net, p.cpus, TRUE, foreground)
             r == create_vm(World, args, fault)
         IN sock[n] /\ InDevs(prepare_network_devices(World, args)) =>
              /\ Stale(World, n) => PastStaleSocket(r, n)
              /\ Connects(World, n) => RefusedLiveSocket(r, n)
              /\ r.why = "socket_in_use" => Connects(World, n)

\* a start found the stale socket file of a killed hypervisor and the VM
\* runs again
C11_Witness ==
  /\ hist["vm1"].trail = "kill_start"
  /\ Running(World, "vm1")

\* C12 as stated: after every invocation of stop, whatever the outcome of
\* the supervisor's stop, no socket file exists at the socket path of the VM
C12_StopAlwaysRemovesSocket ==
  \A n \in Names, fault \in StopFaults :
    ~stop_vm(World, n, fault).w.sock[n]

\* C12 amended: after every stop that returned success no socket file
\* exists at the socket path of the VM; a stop returns failure when the
\* supervisor's stop failed, and then the socket file is as it was before
C12_StopRemovesSocketOnSuccess ==
  \A n \in Names, fault \in StopFaults :
    LET r == stop_vm(World, n, fault)
    IN /\ r.res = "ok" => ~r.w.sock[n]
       /\ r.res # "ok" => r.w.sock[n] = sock[n]
       /\ ~supLoaded[n] \/ fault = "supervisor" =>
            r.res = "fail" /\ r.w = World

\* a stop of a running VM succeeded and its socket file is gone
C12_Witness ==
  /\ hist["vm1"].trail = "create_stop"
  /\ ~sock["vm1"]
  /\ hv["vm1"].st = "down"
  /\ supLoaded["vm1"]

\* host state w differs from the present one at most in the hypervisor
\* process and the socket file of n
OnlyProcessAndSocket(w, n) ==
  /\ w.dev = dev
  /\ w.route = route
  /\ w.rootfs = rootfs
  /\ w.supConf = supConf
  /\ w.supLoaded = supLoaded
  /\ w.cache = cache
  /\ \A m \in Names \ {n} : w.hv[m] = hv[m] /\ w.sock[m] = sock[m]

\* C13: a stop leaves the network interfaces, the rootfs files, the
\* supervisor configs and the Records unchanged, whatever its outcome; it
\* changes at most the hypervisor process and the socket file of its VM
C13_StopChangesOnlyProcessAndSocket ==
  \A n \in Names, fault \in StopFaults :
    OnlyProcessAndSocket(stop_vm(World, n, fault).w, n)

\* a VM was stopped and its interfaces, rootfs file, supervisor config and
\* Record are still there
C13_Witness ==
  /\ hist["vm1"].trail = "create_stop"
  /\ hist["vm1"].networkdriver = "internal"
  /\ \A d \in OwnTaps("vm1") : dev[d].present
  /\ rootfs[RootfsPath("vm1")] # ""
  /\ supConf["vm1"]
  /\ cache["vm1"].present

\* what can go wrong in the start half of a restart: at the socket file, at
\* the supervisor, in the wait for the hypervisor and in a configuration
\* call
RestartStartFaults == LifeStartFaults \cup {"supervisor", "unlink"}

\* C14: restart is stop followed by start: when the stop fails the restart
\* fails as the stop's failure and leaves the host as the stop left it (no
\* start ran); when the stop succeeds the restart leaves the host as a start
\* after that stop leaves it (no second stop ran), fails as the start's
\* failure when that start fails, and succeeds exactly when both succeeded
C14_RestartIsStopThenStart ==
  \A n \in Names, stopFault \in StopFaults, startFault \in RestartStartFaults :
    LET stopped == stop_vm(World, n, stopFault)
        started == start_vm(stopped.w, n, startFault)
        r == restart_vm(World, n, stopFault, startFault)
    IN /\ stopped.res # "ok" =>
            r.res = "fail" /\ r.why = "stop" /\ r.w = stopped.w
       /\ stopped.res = "ok" =>
            /\ r.w = started.w
            /\ started.res # "ok" => r.res # "ok" /\ r.why = "start"
            /\ started.res = "ok" => r.res = "ok"
       /\ r.res = "ok" => stopped.res = "ok" /\ started.res = "ok"

\* a running VM was restarted and runs again
C14_Witness ==
  /\ hist["vm1"].trail = "create_restart"
  /\ Running(World, "vm1")
  /\ AsRecorded(World, "vm1")

\* no interface with a generated name exists on the host
Fresh(w) == \A d \in AutoNames : ~w.dev[d].present

\* the Record of n in w holds the generated names of indices 0 and 1 and
\* the network mode internal
FirstNamesRecorded(w, n) ==
  /\ w.cache[n].present
  /\ w.cache[n].tap_device = TapName(TapPrefix, 0)
  /\ w.cache[n].mmds_tap = TapName(TapPrefix, 1)
  /\ w.cache[n].networkdriver = "internal"

\* the outcome of a create of n with generated names, in the foreground or
\* under supervisord
FreshCreate(n, p, foreground, fault) ==
  create_vm(World,
            CreateArgs(n, p, [drv |-> "internal", tap |-> "", mmds |-> ""],
                       p.cpus, FALSE, foreground),
            fault)

\* C15 as stated: on a host without interfaces, a create with generated
\* names that returns success has assigned the names of indices 0 and 1,
\* has persisted a Record with those names and the network mode internal,
\* and a discovery pass then lists the VM as running
C15_FreshCreateRecordedAndRunning ==
  \A n \in Names, p \in Profiles, foreground \in BOOLEAN,
     fault \in CreateFaults :
    LET r == FreshCreate(n, p, foreground, fault)
    IN Fresh(World) /\ r.res = "ok" =>
         /\ r.tap_device = TapName(TapPrefix, 0)
         /\ r.mmds_tap = TapName(TapPrefix, 1)
         /\ FirstNamesRecorded(r.w, n)
         /\ [name |-> n, state |-> "running"] \in discover_all_vms(r.w)

\* C15 amended: on a host without interfaces of the prefix, a create with
\* generated names that returns success has assigned the names of indices
\* 0 and 1; unless it warned that it could not save the Record, it has
\* persisted a Record with those names and the network mode internal; and
\* when it ran under supervisord and saved the Record, a discovery pass
\* then lists the VM as running
C15_FreshCreateFirstNames ==
  \A n \in Names, p \in Profiles, foreground \in BOOLEAN,
     fault \in CreateFaults :
    LET r == FreshCreate(n, p, foreground, fault)
    IN Fresh(World) /\ r.res = "ok" =>
         /\ r.tap_device = TapName(TapPrefix, 0)
         /\ r.mmds_tap = TapName(TapPrefix, 1)
         /\ r.why # "save" => FirstNamesRecorded(r.w, n)
         /\ ~foreground /\ r.why # "save" =>
              [name |-> n, state |-> "running"] \in discover_all_vms(r.w)

\* the first create on the host, with generated names and under
\* supervisord, has succeeded: the Record holds the first two names and
\* discovery lists the VM as running
C15_Witness ==
  /\ hist["vm1"].trail = "create"
  /\ hist["vm1"].mode = "supervisor"
  /\ hist["vm1"].synced
  /\ FirstNamesRecorded(World, "vm1")
  /\ {d \in AutoNames : dev[d].present}
       = {TapName(TapPrefix, 0), TapName(TapPrefix, 1)}
  /\ [name |-> "vm1", state |-> "running"] \in discover_all_vms(World)

\* C18: device setup is idempotent: a second call of the device-setup
\* routine with the same (name, host IP, guest IP) right after a first call
\* that succeeded leaves the host state of the first call and issues no
\* mutating device command (no create, no address add, no link-up, no route
\* add); the same for the setup of the metadata-service device
C18_SetupTwiceIssuesNothing ==
  /\ \A d \in AutoNames, p \in Profiles :
       LET once == setup_tap_device(World, d, p.tap_ip, p.vm_ip, "none")
           twice == setup_tap_device(once.w, d, p.tap_ip, p.vm_ip, "none")
       IN once.ok => twice.ok /\ twice.w = once.w /\ twice.cmds = <<>>
  /\ \A d \in AutoNames :
       LET once == setup_mmds_tap_device(World, d, "none")
           twice == setup_mmds_tap_device(once.w, d, "none")
       IN once.ok => twice.ok /\ twice.w = once.w /\ twice.cmds = <<>>

\* ------------------------------------------------------------------------
\* Creates in which any one step fails
\* ------------------------------------------------------------------------

NextCreate ==
  \/ Create("vm1", CreateFaults, {FALSE})
  \/ CreateBad("vm1")
  \/ HvReady("vm1")
  \/ Stop("vm1", {"none"})

SpecCreate == Init /\ [][NextCreate]_vars

\* C6: a create writes the Record only when the hypervisor launch, every
\* configuration call and the start action succeeded, in supervisor mode
\* and in foreground mode: a step in which a Record is written is a create
\* that returned success and reported no failed launch
C6_RecordWrittenOnlyAfterAllSteps ==
  [][\A n \in Names :
       cache'[n].present /\ cache'[n] # cache[n] =>
         /\ hist'[n].trail = "create"
         /\ hist'[n].warn # "spawn"]_vars

\* the host state right after the launch of a hypervisor for n: the
\* process listens on a new socket and holds no configuration
Launched(w, n) ==
  Listen(Spawn([w EXCEPT !.sock[n] = FALSE, !.hv[n] = HvDown], n), n)

\* the configurations that create and start hand to configure_and_start:
\* with and without a metadata-service interface, with and without a
\* metadata document
VmConfigs(n) ==
  {[vm_name |-> n, kernel_path |-> KernelPath, rootfs_path |-> RootfsPath(n),
    tap_device |-> net.tap, tap_ip |-> p.tap_ip, vm_ip |-> p.vm_ip,
    cpus |-> p.cpus, memory |-> p.memory,
    metadata |-> IF pushed
                 THEN parse_metadata(NoDoc, p.tap_ip, p.vm_ip, n)
                 ELSE NoDoc,
    mmds_tap |-> mmds_tap, hostname |-> n, networkdriver |-> net.drv] :
   p \in Profiles,
   net \in {[drv |-> "internal", tap |-> TapName(TapPrefix, 0)],
            [drv |-> "external", tap |-> "ext0"]},
   mmds_tap \in {"", TapName(TapPrefix, 1)},
   pushed \in BOOLEAN}

\* the calls after the primary interface: those of the metadata service,
\* when an interface for it was given, and the start action
AfterPrimary(c) ==
  (IF c.mmds_tap # "" /\ c.metadata # NoDoc
   THEN <<"mmds_tap", "mmds0", "mmds_config", "mmds_put">> ELSE <<>>)
  \o <<"start">>

\* configure_and_start on a launched hypervisor issues its calls in the
\* order full: the calls made are the first calls of full, all of them when
\* it succeeds and those up to the failing one when it fails, and the start
\* action is the last call of a run in which every other call succeeded
IssuedInOrder(n, c, failAt, full) ==
  LET r == configure_and_start(Launched(World, n), c, failAt)
  IN /\ Len(r.calls) <= Len(full)
     /\ r.calls = SubSeq(full, 1, Len(r.calls))
     /\ r.ok => r.calls = full /\ r.w.hv[n].started
     /\ ~r.ok => /\ r.calls # <<>>
                 /\ r.at = r.calls[Len(r.calls)]
                 /\ ~r.w.hv[n].started
     /\ (\E i \in DOMAIN r.calls : r.calls[i] = "start") =>
          Len(r.calls) = Len(full)

\* C24 as stated: the calls of configure-and-start are issued in the order
\* boot source, root drive, machine config, primary interface setup and
\* attach, then the metadata-service calls when an interface for it was
\* given, then the start action; the first failing call ends the sequence
C24_BootDriveMachineOrder ==
  \A n \in Names, failAt \in {"none"} \cup ConfigFaults :
    \A c \in VmConfigs(n) :
    IssuedInOrder(n, c, failAt,
                  <<"boot", "drive", "machine", "tap", "eth0">>
                  \o AfterPrimary(c))

\* C24 amended: the calls are issued in the order machine config, boot
\* source, root drive, primary interface setup and attach, then, only when
\* a metadata-service interface was given, its setup and attach, the
\* metadata-service configuration and the metadata push, and last the start
\* action; the first failing call ends the sequence, no later call is
\* issued, and the start action is issued only after every other call
\* succeeded
C24_MachineBootDriveOrder ==
  \A n \in Names, failAt \in {"none"} \cup ConfigFaults :
    \A c \in VmConfigs(n) :
    IssuedInOrder(n, c, failAt,
                  <<"machine", "boot", "drive", "tap", "eth0">>
                  \o AfterPrimary(c))

\* a create has ended at a failing call for the primary interface: the
\* hypervisor holds the machine config, the boot source and the drive, no
\* interface, and was not started
C24_Witness ==
  /\ hv["vm1"].st = "up" /\ ~hv["vm1"].started
  /\ hv["vm1"].vcpu_count # 0 /\ hv["vm1"].kernel # ""
  /\ hv["vm1"].drive # ""
  /\ hv["vm1"].eth0 = "" /\ hv["vm1"].mmds0 = ""
  /\ ~cache["vm1"].present

\* C25: in a create under the supervisor the wait for the socket of the
\* hypervisor ends after at most 10 attempts; when no attempt finds the
\* socket present and listened on, create fails without any configuration
\* call, without a Record and without removing an interface, and the
\* configuration calls are made only after an attempt that succeeded
C25_WaitGivesUpAfterTenAttempts ==
  \A n \in Names :
    /\ ~check_socket_in_use(World, n) =>
         \A readyAt \in 1 .. max_retries + 1 :
           LET r == wait_for_socket(World, n, 1, readyAt)
           IN /\ r.attempts \in 1 .. 10
              /\ r.ready <=> check_socket_in_use(r.w, n)
              /\ r.ready => r.attempts <= readyAt
              /\ ~r.ready => r.attempts = 10 /\ r.w.hv[n] = World.hv[n]
              /\ hv[n].st = "starting" /\ ~sock[n] =>
                   (r.ready <=> readyAt <= 10) /\ (r.ready => r.attempts = readyAt)
    /\ \A p \in Profiles, net \in NetArgs :
         LET args == CreateArgs(n, p, net, p.cpus, FALSE, FALSE)
             r == create_vm(World, args, "notready")
             s == create_vm(World, args, "slow")
         IN /\ r.res = "fail"
            /\ r.why \notin {"machine", "boot", "drive", "tap", "eth0",
                              "mmds_tap", "mmds0", "mmds_config",
                              "mmds_put", "start"}
            /\ r.why = "timeout" =>
                 /\ r.w.hv[n] = [HvDown EXCEPT !.st = "starting"]
                 /\ r.w.cache = cache
                 /\ r.w.dev = dev /\ r.w.route = route
            /\ hv[n].st = "down" /\ ~sock[n] /\ rootfs[RootfsPath(n)] = "" =>
                 r.why = "timeout"
            /\ s = create_vm(World, args, "none")
            /\ s.res = "ok" => check_socket_in_use(s.w, n)

\* a create under the supervisor has given up the wait: the supervisor
\* holds the program and has spawned it, the hypervisor does not listen
\* and holds no configuration, and there is no Record and no interface
C25_Witness ==
  /\ supConf["vm1"] /\ supLoaded["vm1"]
  /\ hv["vm1"] = [HvDown EXCEPT !.st = "starting"]
  /\ ~sock["vm1"] /\ ~cache["vm1"].present
  /\ rootfs[RootfsPath("vm1")] # ""
  /\ \A d \in AutoNames : ~dev[d].present

\* C30: when the write of the Record fails after create has configured and
\* started the VM, create still returns success, with a warning, and the
\* VM stays as the create made it: the hypervisor is not stopped and no
\* interface is removed; only the Record is not written
C30_FailedSaveIsOnlyAWarning ==
  \A n \in Names, p \in Profiles, net \in NetArgs, foreground \in BOOLEAN :
    LET args == CreateArgs(n, p, net, p.cpus, FALSE, foreground)
        made == create_vm(World, args, "none")
        r == create_vm(World, args, "save")
    IN made.res = "ok" =>
         /\ r.res = "ok" /\ r.why = "save"
         /\ r.w.cache = cache
         /\ r.w.hv = made.w.hv /\ r.w.sock = made.w.sock
         /\ r.w.dev = made.w.dev /\ r.w.route = made.w.route
         /\ r.w.rootfs = made.w.rootfs
         /\ r.w.supConf = made.w.supConf /\ r.w.supLoaded = made.w.supLoaded
         /\ made.w.cache[n].present /\ made.w.cache[n].valid
         /\ ~foreground =>
              /\ Running(r.w, n)
              /\ r.tap_device # "" /\ r.mmds_tap # ""
              /\ r.w.hv[n].eth0 = r.tap_device
              /\ args.networkdriver = "internal" =>
                   r.w.dev[r.tap_device].present /\ r.w.dev[r.mmds_tap].present

\* a create under the supervisor has returned success with the warning
\* that the Record was not written: the VM runs on its interfaces and has
\* no Record
C30_Witness ==
  /\ hist["vm1"].trail = "create" /\ hist["vm1"].warn = "save"
  /\ hist["vm1"].mode = "supervisor"
  /\ hist["vm1"].networkdriver = "internal"
  /\ Running(World, "vm1")
  /\ dev[hist["vm1"].tap_device].present
  /\ dev[hist["vm1"].mmds_tap].present
  /\ supConf["vm1"] /\ ~cache["vm1"].present

\* the create went as far as the launch of the hypervisor in the foreground
Launching(r) ==
  r.why \notin {"params", "external_params", "network", "rootfs_exists",
                "rootfs_build", "socket_in_use", "unlink"}

\* the outcome of a create of n in the foreground
ForegroundCreate(n, p, net, fault) ==
  create_vm(World, CreateArgs(n, p, net, p.cpus, FALSE, TRUE), fault)

RecordKeys ==
  {"kernel", "rootfs", "tap_device", "mmds_tap", "vm_ip", "tap_ip", "cpus",
   "memory", "hostname", "base_image", "networkdriver"}

\* the records that a save can be given
StoreRecords ==
  [kernel : {KernelPath}, rootfs : RootfsPaths,
   tap_device : {TapName(TapPrefix, 0), "ext0"},
   mmds_tap : {"", TapName(TapPrefix, 1)}, vm_ip : VmIps,
   tap_ip : {p.tap_ip : p \in Profiles}, cpus : {p.cpus : p \in Profiles},
   memory : {p.memory : p \in Profiles}, hostname : {"vm1", "web"},
   base_image : {"", "alpine.ext4"},
   networkdriver : {"internal", "external"}]

\* the records that the saves of this specification write
SavedRecords ==
  {rec \in StoreRecords :
     /\ rec.rootfs = RootfsPath("vm1")
     /\ rec.hostname = "web"
     /\ rec.base_image = "alpine.ext4"
     /\ rec.networkdriver = "internal"
     /\ rec.tap_device = TapName(TapPrefix, 0)
     /\ (rec.cpus = 1) = (rec.memory = 128)}

\* save_vm_config called with the fields of rec
SaveRecord(w, n, rec, failed) ==
  save_vm_config(w, n, rec.kernel, rec.rootfs, rec.tap_device, rec.mmds_tap,
                 rec.vm_ip, rec.tap_ip, rec.cpus, rec.memory, rec.hostname,
                 rec.base_image, rec.networkdriver, failed)

\* the host state and the history that a save of rec with outcome r leaves
Stored(n, rec, r) ==
  /\ SetWorld(r.w)
  /\ hist' = [hist EXCEPT ![n] =
                IF ~r.ok THEN @
                ELSE [@ EXCEPT !.trail = IF cache[n].present
                                            /\ r.w.cache[n] # cache[n]
                                         THEN "save_save" ELSE "save",
                               !.recorded = TRUE, !.cpus = rec.cpus,
                               !.memory = rec.memory, !.vm_ip = rec.vm_ip,
                               !.tap_device = rec.tap_device,
                               !.mmds_tap = rec.mmds_tap,
                               !.networkdriver = rec.networkdriver]]

\* ConfigManager.save_vm_config for n
StoreSave(n) ==
  \E rec \in SavedRecords, failed \in BOOLEAN :
    Stored(n, rec, SaveRecord(World, n, rec, failed))

\* ConfigManager.remove_vm_config_cache for n
StoreRemove(n) ==
  /\ SetWorld(remove_vm_config_cache(World, n, FALSE).w)
  /\ hist' = [hist EXCEPT ![n] = NoHist]

NextStore ==
  \/ \E n \in Names : StoreSave(n)
  \/ \E n \in Names : StoreRemove(n)

SpecStore == Init /\ [][NextStore]_vars

MetaDocs ==
  {NoDoc,
   [user |-> "a"],
   [network_config |->
      [ip |-> "10.9.9.9", gateway |-> "10.9.9.1", hostname |-> "old"]],
   [user |-> "a",
    network_config |->
      [ip |-> "10.9.9.9", gateway |-> "10.9.9.1", hostname |-> "old"]]}

\* --hostname: not given, or given
Hostnames == {"", "web"}

MetaArgs(n, p, net, metadata, hostname, foreground) ==
  [CreateArgs(n, p, net, p.cpus, FALSE, foreground)
     EXCEPT !.metadata = metadata, !.hostname = hostname]

\* fcm create --name n --metadata ... --hostname ...
CreateMeta(n) ==
  \E p \in Profiles, net \in NetArgs, metadata \in MetaDocs,
     hostname \in Hostnames, foreground \in BOOLEAN :
    CreateStep(n, MetaArgs(n, p, net, metadata, hostname, foreground), "none")

NextMeta ==
  \/ CreateMeta("vm1")
  \/ Stop("vm1", {"none"})
  \/ Destroy("vm1", {"none"})

SpecMeta == Init /\ [][NextMeta]_vars

\* document doc is document M with its network_config key set to guest IP
\* G, gateway IP H and hostname N, and every other key as in M
WithNetworkConfig(doc, M, G, H, N) ==
  /\ DOMAIN doc = DOMAIN M \cup {"network_config"}
  /\ doc["network_config"] = [ip |-> G, gateway |-> H, hostname |-> N]
  /\ \A k \in DOMAIN M \ {"network_config"} : doc[k] = M[k]

\* C17: for every metadata document M, guest IP G, gateway IP H and
\* hostname N, the document that create builds is M with its network_config
\* key set to {ip: G, gateway: H, hostname: N}, whatever network_config M
\* held, and a create under supervisord that returns success has pushed
\* that document to the metadata service; N is the name of the VM when no
\* hostname is given
C17_MetadataDocumentPushed ==
  /\ \A M \in MetaDocs, G \in VmIps, H \in {p.tap_ip : p \in Profiles},
        N \in Hostnames :
       WithNetworkConfig(parse_metadata(M, H, G, N), M, G, H, N)
  /\ \A n \in Names, p \in Profiles, net \in NetArgs, M \in MetaDocs,
        N \in Hostnames :
       LET r == create_vm(World, MetaArgs(n, p, net, M, N, FALSE), "none")
       IN r.res = "ok" =>
            /\ Running(r.w, n)
            /\ WithNetworkConfig(r.w.hv[n].mmds, M, p.vm_ip, p.tap_ip,
                                 IF N = "" THEN n ELSE N)

\* a VM runs whose create was given a document with a key of its own and a
\* network_config, and its metadata service holds that key and the
\* network_config of the create
C17_Witness ==
  /\ hist["vm1"].trail = "create"
  /\ hist["vm1"].mode = "supervisor"
  /\ DOMAIN hist["vm1"].metadata = {"user", "network_config"}
  /\ Running(World, "vm1")
  /\ hv["vm1"].mmds["user"] = hist["vm1"].metadata["user"]
  /\ hv["vm1"].mmds["network_config"].ip = hist["vm1"].vm_ip
  /\ hist["vm1"].metadata["network_config"].ip # hist["vm1"].vm_ip

\* ------------------------------------------------------------------------
\* Discovery passes between the lifecycle operations of two VMs
\* ------------------------------------------------------------------------

\* the state that a pass reported for n, "" when n was not in its list
StateIn(vms, n) ==
  IF \E v \in vms : v.name = n
  THEN (CHOOSE v \in vms : v.name = n).state
  ELSE ""

\* the host state and the history that a pass with outcome r leaves
Listed(r) ==
  /\ SetWorld(r.w)
  /\ hist' = [n \in Names |->
               [hist[n] EXCEPT !.trail = Trail(@, "list"),
                               !.listed = StateIn(r.vms, n)]]

\* fcm list
List ==
  \E noConfig \in SUBSET Names : Listed(list_vms(World, noConfig))

NextList ==
  \/ \E n \in Names : Create(n, {"none"}, {FALSE})
  \/ \E n \in Names : Stop(n, {"none"})
  \/ \E n \in Names : Start(n, {"none"})
  \/ \E n \in Names : HvKill(n)
  \/ List

SpecList == Init /\ [][NextList]_vars

\* C19: discovery is read-only: a discovery pass over all VMs leaves every
\* Record, every network interface and route, every socket file, every
\* hypervisor process and the supervisor's configuration as they were, and
\* a stop, start, restart or destroy of any VM has the same outcome after
\* the pass as without it
C19_DiscoveryReadOnly ==
  \A noConfig \in SUBSET Names :
    LET r == list_vms(World, noConfig)
    IN /\ r.w.cache = cache /\ r.w.rootfs = rootfs
       /\ r.w.dev = dev /\ r.w.route = route
       /\ r.w.sock = sock
       /\ r.w.hv = hv
       /\ r.w.supConf = supConf /\ r.w.supLoaded = supLoaded
       /\ \A n \in Names :
            /\ stop_vm(r.w, n, "none") = stop_vm(World, n, "none")
            /\ start_vm(r.w, n, "none") = start_vm(World, n, "none")
            /\ restart_vm(r.w, n, "none", "none")
                 = restart_vm(World, n, "none", "none")
            /\ destroy_vm(r.w, n, TRUE, "yes", "none")
                 = destroy_vm(World, n, TRUE, "yes", "none")

\* a pass has just listed vm1, which runs, and vm2, whose hypervisor was
\* killed and left its socket file
C19_Witness ==
  /\ hist["vm1"].trail = "create_list" /\ hist["vm1"].listed = "running"
  /\ Running(World, "vm1")
  /\ hist["vm2"].trail = "kill_list" /\ hist["vm2"].listed = "stopped"
  /\ sock["vm2"] /\ hv["vm2"].st = "down"

\* C20: a discovery pass classifies a VM with a Record as running exactly
\* when its socket file exists, a process answers on the socket and the
\* configuration request is answered with a document, and as stopped in
\* every other case; what the last operations on the VM were, and what
\* the Record holds, does not enter
C20_RunningIffLive ==
  \A noConfig \in SUBSET Names, n \in Names :
    LET vms == list_vms(World, noConfig).vms
        live == sock[n] /\ hv[n].st = "up" /\ n \notin noConfig
    IN IF cache[n].present
       THEN /\ live => StateIn(vms, n) = "running"
            /\ ~live => StateIn(vms, n) = "stopped"
       ELSE StateIn(vms, n) = ""

\* a pass has just listed as stopped a VM that was created and started and
\* whose Record is there, because its hypervisor was killed and only the
\* socket file is left
C20_Witness ==
  /\ hist["vm1"].trail = "kill_list" /\ hist["vm1"].listed = "stopped"
  /\ hist["vm1"].created /\ cache["vm1"].present
  /\ sock["vm1"] /\ hv["vm1"].st = "down"

\* ------------------------------------------------------------------------
\* Records that are lost or garbled behind the back of the manager
\* ------------------------------------------------------------------------

\* the cache file of n is overwritten with text that is no JSON document
Garble(n) ==
  /\ cache[n].present /\ cache[n].valid
  /\ cache' = [cache EXCEPT ![n].valid = FALSE]
  /\ hist' = [hist EXCEPT ![n].trail = Trail(@, "garble")]
  /\ UNCHANGED <<rootfs, sock, hv, dev, route, supConf, supLoaded>>

NextRecords ==
  \/ Create("vm1", LifeCreateFaults, {FALSE})
  \/ Create("vm2", {"none"}, {FALSE})
  \/ Stop("vm1", {"none"})
  \/ \E n \in Names : Garble(n)
  \/ List

SpecRecords == Init /\ [][NextRecords]_vars

\* the names with a Record that loads
Loadable(w) == {n \in Names : load_vm_config(w, n) # <<>>}

\* C21: the VMs that a discovery pass reports are the names with a loadable
\* Record: a name without one is not reported, whether its socket is live
\* or not, and every name with a valid Record is reported exactly once, as
\* running or as stopped
C21_ReportedIffRecord ==
  \A noConfig \in SUBSET Names :
    LET vms == list_vms(World, noConfig).vms
    IN /\ {v.name : v \in vms} = Loadable(World)
       /\ Cardinality(vms) = Cardinality(Loadable(World))
       /\ \A v \in vms : v.state \in {"running", "stopped"}

\* a pass has just left out vm1, whose socket is live and whose cache file
\* does not load, and listed vm2, whose Record is valid
C21_Witness ==
  /\ hist["vm1"].trail = "garble_list" /\ hist["vm1"].listed = ""
  /\ Live("vm1") /\ cache["vm1"].present
  /\ hist["vm2"].listed # "" /\ cache["vm2"].valid

\* the orders in which the directory can list the cache files
GlobOrders(w) ==
  {files \in [1..Cardinality(get_all_cached_vms(w)) -> get_all_cached_vms(w)] :
     \A i, j \in DOMAIN files : i # j => files[i] # files[j]}

\* C22: a Record that fails to load is skipped by the discovery pass and
\* does not end it: in whatever order the cache files are enumerated, the
\* pass reports every VM with a valid Record, before and after the corrupt
\* one, and reports it the same way
C22_CorruptRecordSkipped ==
  \A noConfig \in SUBSET Names, files \in GlobOrders(World) :
    LET all_vms == discover_all_vms_loop(World, files, noConfig, <<>>)
    IN /\ \A n \in Loadable(World) : \E i \in DOMAIN all_vms : all_vms[i].name = n
       /\ {all_vms[i] : i \in DOMAIN all_vms} = list_vms(World, noConfig).vms
       /\ Len(all_vms) = Cardinality(Loadable(World))

\* a pass has just left out vm2, whose cache file does not load, and has
\* listed vm1 as running
C22_Witness ==
  /\ hist["vm2"].trail = "garble_list" /\ hist["vm2"].listed = ""
  /\ cache["vm2"].present /\ ~cache["vm2"].valid
  /\ hist["vm1"].trail = "create_list" /\ hist["vm1"].listed = "running"
  /\ cache["vm1"].valid

\* ------------------------------------------------------------------------
\* Creates that name their interfaces, on a host where the names are taken
\* ------------------------------------------------------------------------

\* internal-mode creates that name one of their interfaces themselves
NamedNetArgs ==
  { [drv |-> "internal", tap |-> TapName(TapPrefix, 0), mmds |-> ""],
    [drv |-> "internal", tap |-> "", mmds |-> TapName(TapPrefix, 1)] }

\* fcm create --name n --tap-device ... or --mmds-tap ...
CreateNamed(n) ==
  \E p \in Profiles, net \in NamedNetArgs, force \in BOOLEAN,
     fault \in {"none", "rootfs"} :
    CreateStep(n, CreateArgs(n, p, net, p.cpus, force, FALSE), fault)

NextNamed ==
  \/ Create("vm1", {"none"}, {FALSE})
  \/ Stop("vm1", {"none"})
  \/ CreateNamed("vm2")
  \/ CreateBad("vm2")
  \/ Stop("vm2", {"none"})

SpecNamed == Init /\ [][NextNamed]_vars

\* the command lines of a create that fail at parameter validation or at
\* the allocation or validation of the interface names in world w
FailsEarly(w, args) ==
  \/ ~validate_create_parameters(args)
  \/ ~validate_external_network_parameters(args)
  \/ ~prepare_network_devices(w, args).ok

\* C23: create settles the interface names before it builds the root
\* filesystem: a create that fails at parameter validation or at the
\* allocation or validation of the interface names (a name that is taken)
\* returns failure and has changed nothing, whatever the overwrite flag and
\* whatever would have gone wrong in the build: no rootfs file is created
\* or overwritten, no supervisor config is written, no interface is created
\* and no Record is written
C23_EarlyFailureMutatesNothing ==
  \A n \in Names, p \in Profiles, force \in BOOLEAN, foreground \in BOOLEAN,
     fault \in {"none", "rootfs", "save"} :
    /\ \A net \in NetArgs \cup NamedNetArgs :
         LET args == CreateArgs(n, p, net, p.cpus, force, foreground)
             r == create_vm(World, args, fault)
         IN FailsEarly(World, args) =>
              /\ r.res = "fail" /\ r.why = "network"
              /\ r.w.rootfs = rootfs /\ r.w.supConf = supConf
              /\ r.w.dev = dev /\ r.w.cache = cache
              /\ r.w = World
    /\ \A bad \in BadArgs :
         LET args == CreateArgs(n, p, bad, bad.cpus, force, foreground)
             r == create_vm(World, args, fault)
         IN /\ FailsEarly(World, args)
            /\ r.res = "fail" /\ r.why \in {"params", "external_params"}
            /\ r.w = World

\* a create of vm2 that named an interface of the running vm1 has failed,
\* and vm2 has no rootfs file, no supervisor config, no Record and no
\* interface
C23_Witness ==
  /\ hist["vm2"].trail = "collide"
  /\ Running(World, "vm1") /\ hist["vm1"].networkdriver = "internal"
  /\ rootfs[RootfsPath("vm2")] = ""
  /\ ~supConf["vm2"] /\ ~cache["vm2"].present
  /\ \A d \in AutoNames : dev[d].present => d \in {hist["vm1"].tap_device, hist["vm1"].mmds_tap}

\* a create without a fault, and a foreground create whose hypervisor
\* could not be launched, which returns success all the same
SuccessFaults == {"none", "spawn"}

\* C40: every Record that a successful create wrote passes the check of
\* the required fields that start makes: kernel, rootfs, both interfaces,
\* both addresses, cpus and memory are there, in internal and in external
\* mode, with generated and with given interface names; a start after a
\* stop never fails over a missing field of such a Record
C40_CreatedRecordHasRequiredFields ==
  /\ \A n \in Names :
       cache[n].present =>
         /\ load_vm_config(World, n) # <<>>
         /\ RequiredFields(cache[n])
         /\ \A fault \in StartFaults :
              start_vm(stop_vm(World, n, "none").w, n, fault).why
                # "missing_fields"
  /\ \A n \in Names, p \in Profiles, net \in NetArgs \cup NamedNetArgs,
        force \in BOOLEAN, foreground \in BOOLEAN, fault \in SuccessFaults :
       LET args == CreateArgs(n, p, net, p.cpus, force, foreground)
           r == create_vm(World, args, fault)
           loaded == load_vm_config(r.w, n)
       IN InDevs(prepare_network_devices(World, args))
          /\ r.res = "ok" /\ r.why # "save" =>
            /\ loaded # <<>>
            /\ RequiredFields(loaded[1])
            /\ loaded[1].tap_device = r.tap_device
            /\ loaded[1].mmds_tap = r.mmds_tap
            /\ loaded[1].networkdriver = net.drv
            /\ start_vm(stop_vm(r.w, n, "none").w, n, "none").why
                 # "missing_fields"

\* vm2 was created with one interface name given and one generated and has
\* been stopped; vm1 has a Record with both names generated or both
\* external; a start of either passes the check of the required fields
C40_Witness ==
  /\ hist["vm2"].trail = "create_stop"
  /\ cache["vm2"].present /\ RequiredFields(cache["vm2"])
  /\ cache["vm2"].tap_device = TapName(TapPrefix, 0)
  /\ cache["vm2"].mmds_tap # ""
  /\ cache["vm1"].present /\ cache["vm1"].networkdriver = "external"
  /\ start_vm(World, "vm2", "none").res = "ok"

\* ------------------------------------------------------------------------
\* Destroys of VMs whose Record is missing or garbled
\* ------------------------------------------------------------------------

NextLost ==
  \/ Create("vm1", LifeCreateFaults, {FALSE})
  \/ Stop("vm1", {"none"})
  \/ HvKill("vm1")
  \/ Garble("vm1")
  \/ Destroy("vm1", {"none"})
  \/ DestroyDeclined("vm1")

SpecLost == Init /\ [][NextLost]_vars

\* C27: a destroy of a name without a loadable Record (no file, or a file
\* that does not parse) fails and changes nothing: no socket file, no
\* interface, no rootfs file and no supervisor config is removed; a
\* destroy that is declined at the prompt fails as well, with all of these
\* and the Record unchanged
C27_DestroyWithoutRecordChangesNothing ==
  \A n \in Names, fault \in DestroyFaults :
    /\ load_vm_config(World, n) = <<>> =>
         \A force \in BOOLEAN, answer \in {"yes", "no"} :
           LET r == destroy_vm(World, n, force, answer, fault)
           IN /\ r.res = "fail"
              /\ r.why = IF Live(n) THEN "running" ELSE "no_record"
              /\ r.w.sock = sock /\ r.w.dev = dev /\ r.w.rootfs = rootfs
              /\ r.w.supConf = supConf /\ r.w.cache = cache
              /\ r.w = World
    /\ LET r == destroy_vm(World, n, FALSE, "no", fault)
       IN /\ r.res = "fail"
          /\ r.w.sock = sock /\ r.w.dev = dev /\ r.w.rootfs = rootfs
          /\ r.w.supConf = supConf /\ r.w.cache = cache
          /\ r.w = World

\* the hypervisor of vm1 was killed, its Record was garbled, and a destroy
\* has failed: the stale socket file, the interfaces, the rootfs file, the
\* supervisor config and the garbled Record are all still there
C27_Witness ==
  /\ hist["vm1"].trail = "garble_destroy"
  /\ cache["vm1"].present /\ ~cache["vm1"].valid
  /\ sock["vm1"] /\ ~Live("vm1")
  /\ rootfs[RootfsPath("vm1")] # "" /\ supConf["vm1"]
  /\ \E d \in AutoNames : dev[d].present

\* ------------------------------------------------------------------------
\* Starts from Records that are missing, garbled or incomplete
\* ------------------------------------------------------------------------

\* the fields start requires, and the value a Record has where one lacks
required_fields ==
  {"kernel", "rootfs", "tap_device", "mmds_tap", "vm_ip", "tap_ip", "cpus",
   "memory"}

Lacking(field) == IF field \in {"cpus", "memory"} THEN 0 ELSE ""

\* a Record of n in which one required field is empty, as an older version
\* or an edit by hand leaves it
Strip(n) ==
  /\ cache[n].present /\ cache[n].valid /\ RequiredFields(cache[n])
  /\ \E field \in required_fields :
       /\ cache' = [cache EXCEPT ![n][field] = Lacking(field)]
  /\ hist' = [hist EXCEPT ![n].trail = Trail(@, "strip")]
  /\ UNCHANGED <<rootfs, sock, hv, dev, route, supConf, supLoaded>>

NextStart ==
  \/ Create("vm1", LifeCreateFaults, {FALSE})
  \/ Stop("vm1", {"none"})
  \/ HvKill("vm1")
  \/ Garble("vm1")
  \/ Strip("vm1")
  \/ Start("vm1", LifeStartFaults)
  \/ Restart("vm1", {"none"}, {"none", "start"})

SpecStart == Init /\ [][NextStart]_vars

\* C28: start fails when the Record is absent, does not parse or lacks one
\* of the required fields (kernel, rootfs, primary interface,
\* metadata-service interface, guest IP, gateway IP, cpus, memory), and
\* when the socket is live; in each case it returns before the supervisor
\* is asked to start the process and changes nothing on the host
C28_StartRefusedChangesNothing ==
  \A n \in Names, fault \in StartFaults :
    /\ LET r == start_vm(World, n, fault)
       IN /\ load_vm_config(World, n) = <<>> =>
               r.res = "fail" /\ r.why = "no_record" /\ r.w = World
          /\ (\E field \in required_fields :
                cache[n][field] = Lacking(field)) =>
               r.res = "fail" /\ r.w = World
          /\ Live(n) => r.res = "fail" /\ r.w = World
    /\ \A field \in required_fields :
         LET w == [World EXCEPT !.cache[n][field] = Lacking(field)]
             r == start_vm(w, n, fault)
         IN /\ r.res = "fail" /\ r.w = w
            /\ load_vm_config(World, n) # <<>> => r.why = "missing_fields"

\* the stopped vm1 has a Record that lacks a required field, a start of it
\* has failed, and the hypervisor was not spawned
C28_Witness ==
  /\ hist["vm1"].trail = "strip_start"
  /\ cache["vm1"].present /\ cache["vm1"].valid
  /\ ~RequiredFields(cache["vm1"])
  /\ hv["vm1"].st = "down" /\ supConf["vm1"]
  /\ rootfs[RootfsPath("vm1")] # ""

\* the hypervisor of n holds the kernel, the drive, the machine size and
\* the interface names of the Record rec, and the primary interface
\* carries the gateway address of rec
ConfiguredFrom(w, n, rec) ==
  /\ w.hv[n].started
  /\ w.hv[n].kernel = rec.kernel /\ w.hv[n].drive = rec.rootfs
  /\ w.hv[n].vcpu_count = rec.cpus /\ w.hv[n].mem_size_mib = rec.memory
  /\ w.hv[n].eth0 = rec.tap_device /\ w.hv[n].mmds0 = rec.mmds_tap
  /\ rec.networkdriver = "internal" =>
       /\ w.dev[rec.tap_device].present
       /\ rec.tap_ip \in w.dev[rec.tap_device].ips
       /\ w.route[rec.vm_ip] = rec.tap_device

\* C29: start, and with it restart, takes the interface names, the paths,
\* the addresses, cpus and memory from the Record as they are: it neither
\* allocates nor validates names, so the names it uses are the reserved
\* ones of the Record although their interfaces exist; and it never
\* writes, changes or deletes a Record, whether it succeeds or fails
C29_StartUsesRecordAsGiven ==
  \A n \in Names :
    /\ \A fault \in StartFaults :
         LET r == start_vm(World, n, fault)
         IN /\ r.w.cache = cache
            /\ r.res = "ok" => ConfiguredFrom(r.w, n, cache[n])
    /\ \A stopFault \in StopFaults, startFault \in StartFaults :
         LET r == restart_vm(World, n, stopFault, startFault)
         IN /\ r.w.cache = cache
            /\ r.res = "ok" => ConfiguredFrom(r.w, n, cache[n])

\* vm1 was restarted: it runs on the interfaces of its Record, which are
\* the ones it was created with, and the Record is the one create wrote
C29_Witness ==
  /\ hist["vm1"].trail = "create_restart"
  /\ Live("vm1") /\ hv["vm1"].started
  /\ cache["vm1"].present /\ cache["vm1"].valid
  /\ hist["vm1"].networkdriver = "internal"
  /\ cache["vm1"].tap_device = hist["vm1"].tap_device
  /\ hv["vm1"].eth0 = cache["vm1"].tap_device
  /\ hv["vm1"].mmds0 = cache["vm1"].mmds_tap
  /\ dev[cache["vm1"].tap_device].present

\* what discovery says of n when the configuration queries of the VMs in
\* noConfig are not answered with 200: "running", "stopped", or "" when n
\* is not listed
Classified(n, noConfig) ==
  LET found == {e \in list_vms(World, noConfig).vms : e.name = n}
  IN IF found = {} THEN "" ELSE (CHOOSE e \in found : TRUE).state

\* destroy refuses n as currently running
DestroyRefusesRunning(n) ==
  \A force \in BOOLEAN, fault \in DestroyFaults :
    LET r == destroy_vm(World, n, force, "yes", fault)
    IN r.res = "fail" /\ r.why = "running"

\* start refuses n and changes nothing: as already in use, or, when the
\* Record lacks a required field, over the field, which it checks first
StartRefusesInUse(n) ==
  \A fault \in StartFaults :
    LET r == start_vm(World, n, fault)
    IN /\ r.res = "fail" /\ r.w = World
       /\ r.why = IF RequiredFields(cache[n]) THEN "socket_in_use"
                  ELSE "missing_fields"

\* some destroy or start of n is refused over a live socket
SomeRefusal(n) ==
  \/ \E force \in BOOLEAN, fault \in DestroyFaults :
       destroy_vm(World, n, force, "yes", fault).why = "running"
  \/ \E fault \in StartFaults :
       start_vm(World, n, fault).why = "socket_in_use"

\* C36 as stated: where discovery classifies a VM as stopped, destroy does
\* not refuse it as currently running and start does not refuse it as
\* already in use; where discovery classifies it as running, both refuse
C36_GuardsAgreeWithDiscovery ==
  \A noConfig \in SUBSET Names, n \in Names :
    /\ Classified(n, noConfig) = "running" =>
         DestroyRefusesRunning(n) /\ StartRefusesInUse(n)
    /\ Classified(n, noConfig) = "stopped" => ~SomeRefusal(n)

\* C36 amended: where discovery classifies a VM as running, destroy and
\* start both refuse it; where it classifies the VM as stopped, neither
\* refuses it over the socket, unless a hypervisor listens on the socket
\* and did not answer the configuration query of discovery: the guards
\* send the liveness probe only
C36_GuardsAgreeWhenConfigAnswered ==
  \A noConfig \in SUBSET Names, n \in Names :
    /\ Classified(n, noConfig) = "running" =>
         DestroyRefusesRunning(n) /\ StartRefusesInUse(n)
    /\ Classified(n, noConfig) = "stopped" /\ n \notin noConfig =>
         ~SomeRefusal(n)
    /\ Classified(n, noConfig) = "stopped" /\ ~Connects(World, n) =>
         ~SomeRefusal(n)

\* vm1 is listed as stopped over a socket file that nobody listens on, and
\* no guard refuses it
C36_Witness ==
  /\ Classified("vm1", {}) = "stopped"
  /\ sock["vm1"] /\ hv["vm1"].st = "down"
  /\ ~SomeRefusal("vm1")
  /\ hist["vm1"].trail = "kill"

\* C38: a start of a VM that is not live, when it returns failure, leaves
\* the VM not live: neither when it returns nor once the hypervisor it had
\* launched has come to listen does a hypervisor answer on the socket, and
\* a second start is not refused as already in use
C38_FailedStartLeavesNotLive ==
  \A n \in Names, fault \in StartFaults :
    LET r == start_vm(World, n, fault)
        later == Listen(r.w, n)
    IN ~Connects(World, n) /\ r.res = "fail" =>
         /\ ~Connects(r.w, n)
         /\ ~Connects(later, n)
         /\ start_vm(later, n, "none").why # "socket_in_use"

\* ------------------------------------------------------------------------
\* Creates whose build of the root filesystem fails or is refused
\* ------------------------------------------------------------------------

NextBuild ==
  \/ Create("vm1", {"none", "rootfs"}, BOOLEAN)
  \/ Stop("vm1", {"none"})

SpecBuild == Init /\ [][NextBuild]_vars

\* C26: when the build of the root filesystem fails in a create (the copy
\* or the resize), create fails, no rootfs file of the VM remains and no
\* hypervisor is launched; when the build is refused because the file
\* exists and overwriting was not asked for, the file is left as it is
C26_FailedBuildLeavesNoRootfs ==
  \A n \in Names, p \in Profiles, net \in NetArgs, force \in BOOLEAN,
     foreground \in BOOLEAN :
    LET args == CreateArgs(n, p, net, p.cpus, force, foreground)
        r == create_vm(World, args, "rootfs")
        path == RootfsPath(n)
    IN prepare_network_devices(World, args).ok =>
         /\ r.res = "fail"
         /\ r.w.hv = hv /\ r.w.sock = sock
         /\ r.w.supConf = supConf /\ r.w.supLoaded = supLoaded
         /\ r.w.dev = dev /\ r.w.cache = cache
         /\ \A q \in RootfsPaths \ {path} : r.w.rootfs[q] = rootfs[q]
         /\ IF rootfs[path] # "" /\ ~force
            THEN /\ r.why = "rootfs_exists"
                 /\ r.w.rootfs[path] = rootfs[path]
                 /\ create_vm(World, args, "none").w.rootfs[path] = rootfs[path]
            ELSE /\ r.why = "rootfs_build"
                 /\ r.w.rootfs[path] = ""

\* a create that was to overwrite the root filesystem of the stopped vm1
\* has failed in the build: the file is gone, the Record is still there
C26_Witness ==
  /\ hist["vm1"].trail = "build"
  /\ rootfs[RootfsPath("vm1")] = ""
  /\ cache["vm1"].present /\ hv["vm1"].st = "down"
  /\ ~sock["vm1"]

\* C37: a create that is refused because a hypervisor listens on the socket
\* of its name leaves the rootfs file of that name as it was, with and
\* without the force-rootfs flag
C37_LiveSocketRefusalKeepsRootfs ==
  \A n \in Names, p \in Profiles, net \in NetArgs, force \in BOOLEAN,
     foreground \in BOOLEAN :
    LET r == create_vm(World, CreateArgs(n, p, net, p.cpus, force, foreground),
                       "none")
    IN r.res = "fail" /\ r.why = "socket_in_use" =>
         r.w.rootfs[RootfsPath(n)] = rootfs[RootfsPath(n)]

\* ------------------------------------------------------------------------
\* Allocation of interface names on a host whose interfaces come and go
\* ------------------------------------------------------------------------

\* somebody else creates the interface d on the host
LinkAdd(d) ==
  /\ ~dev[d].present
  /\ dev' = [dev EXCEPT ![d] = [present |-> TRUE, ips |-> {}, up |-> FALSE]]
  /\ UNCHANGED <<cache, rootfs, sock, hv, route, supConf, supLoaded, hist>>

\* the interface d disappears from the host
LinkDel(d) ==
  /\ dev[d].present
  /\ dev' = [dev EXCEPT ![d] = NoDev]
  /\ UNCHANGED <<cache, rootfs, sock, hv, route, supConf, supLoaded, hist>>

NextHost ==
  \/ \E d \in AutoNames : LinkAdd(d)
  \/ \E d \in AutoNames : LinkDel(d)
  \/ Create("vm1", {"none"}, {FALSE})
  \/ Stop("vm1", {"none"})

SpecHost == Init /\ [][NextHost]_vars

\* the indices of the names in S
Suffixes(S) == {i \in 0..MaxTap : TapName(TapPrefix, i) \in S}

RECURSIVE Allocations(_, _, _)
\* the names that k allocations in a row return, the first with the
\* reservation set allocated
Allocations(w, allocated, k) ==
  IF k = 0 THEN <<>>
  ELSE LET r == find_next_available_tap_device(w, allocated)
       IN <<r.name>> \o Allocations(w, r.allocated, k - 1)

\* C31: an allocation returns the prefix followed by the smallest number
\* that is the suffix neither of an interface on the host nor of a reserved
\* name, and reserves the name; so the names of allocations in a row are
\* all different, and none was on the host or reserved when it was returned
C31_SmallestFreeIndex ==
  \A allocated \in SUBSET AutoNames :
    LET taken == discover_existing_tap_devices(World) \cup allocated
        r == find_next_available_tap_device(World, allocated)
        names == Allocations(World, allocated, 3)
    IN /\ \E i \in 0..MaxTap :
            /\ r.name = TapName(TapPrefix, i)
            /\ i \notin Suffixes(taken)
            /\ \A j \in 0..(i - 1) : j \in Suffixes(taken)
       /\ r.name \notin taken
       /\ r.allocated = allocated \cup {r.name}
       /\ names[1] = r.name
       /\ names[2] # names[1] /\ names[2] \notin taken
       /\ Cardinality(taken) < MaxTap =>
            /\ names[3] \notin {names[1], names[2]}
            /\ names[3] \notin taken

\* vm1 was created on a host that had the first and the third interface:
\* it got the second and the fourth
C31_Witness ==
  /\ hist["vm1"].trail = "create"
  /\ hist["vm1"].tap_device = TapName(TapPrefix, 1)
  /\ hist["vm1"].mmds_tap = TapName(TapPrefix, 3)
  /\ dev[TapName(TapPrefix, 0)].present /\ dev[TapName(TapPrefix, 2)].present

\* the command lines of an internal-mode create that names none, one or
\* both of its interfaces
ExplicitNetArgs ==
  {[drv |-> "internal", tap |-> tap, mmds |-> mmds] :
     tap \in {""} \cup Devs, mmds \in {""} \cup Devs}

\* C32: the availability validation returns false for a name that exists
\* on the host or is reserved and true otherwise, also for the empty name;
\* create reserves every name it was given and that passed, before it
\* settles the next name: a create given one name for both interfaces is
\* rejected, and a generated name never equals a given one
C32_ValidationSeesHostAndReserved ==
  /\ \A allocated \in SUBSET AutoNames, name \in {""} \cup Devs :
       validate_tap_device_available(World, allocated, name)
         <=> ~(name # "" /\ (dev[name].present \/ name \in allocated))
  /\ \A n \in Names, p \in Profiles, net \in ExplicitNetArgs :
       LET r == prepare_network_devices(
                  World, CreateArgs(n, p, net, p.cpus, FALSE, FALSE))
       IN /\ net.tap # "" /\ net.tap = net.mmds => ~r.ok
          /\ r.ok => r.tap_device # r.mmds_tap

\* there is nothing of n on the host
Absent(n) ==
  /\ ~sock[n] /\ hv[n].st = "down" /\ rootfs[RootfsPath(n)] = ""
  /\ ~cache[n].present

\* a create of n that has settled its interface names as net, and goes on
\* from the host state w
CreateAfterScan(w, n, p, net) ==
  create_vm_prepared(w, CreateArgs(n, p, NoNames, p.cpus, FALSE, FALSE), net,
                     prepare_filesystem(
                       w, CreateArgs(n, p, NoNames, p.cpus, FALSE, FALSE),
                       FALSE),
                     "none")

\* C34: when two creates of different names run as two processes and both
\* have scanned the host before either created an interface, they pick the
\* same name; the name goes to one of them only: the other sees its
\* creation of the interface fail and its create fails, and the two
\* hypervisors are never attached to the same interface of the host
C34_LoserFailsAtDeviceCreation ==
  \A a \in Names, pa \in Profiles, pb \in Profiles : \A b \in Names \ {a} :
    LET scanned == prepare_network_devices(
                     World, CreateArgs(a, pa, NoNames, pa.cpus, FALSE, FALSE))
        winner == CreateAfterScan(World, a, pa, scanned)
        loser == CreateAfterScan(winner.w, b, pb, scanned)
    IN Absent(a) /\ Absent(b) /\ winner.res = "ok" =>
         /\ loser.res = "fail"
         /\ loser.why = "tap"
         /\ loser.w.dev = winner.w.dev /\ loser.w.route = winner.w.route
         /\ loser.w.hv[b].eth0 # winner.w.hv[a].eth0

\* ------------------------------------------------------------------------
\* Records of several VMs whose interfaces are deleted behind their back
\* ------------------------------------------------------------------------

\* fcm create --name n in supervisor mode, the interface names generated
CreateGenerated(n) ==
  \E p \in Profiles :
    CreateStep(n, CreateArgs(n, p, NoNames, p.cpus, FALSE, FALSE), "none")

SharedDestroyFaults == {"none", "rootfs_del"}

NextShared ==
  \/ \E n \in Names : CreateGenerated(n)
  \/ \E n \in Names : Stop(n, {"none"})
  \/ \E n \in Names : Start(n, {"none"})
  \/ \E n \in Names : Destroy(n, SharedDestroyFaults)
  \/ LinkDel(TapName(TapPrefix, 0))

SpecShared == Init /\ [][NextShared]_vars

\* the interface names that the Record of n references
Referenced(n) ==
  IF cache[n].present /\ cache[n].valid
  THEN {cache[n].tap_device, cache[n].mmds_tap} \ {""}
  ELSE {}

\* C35: after any sequence of create, stop, start and destroy with generated
\* interface names, destroys that fail part-way and interfaces deleted on
\* the host included, no two Records that exist at the same time reference
\* the same interface name
C35_RecordsShareNoInterface ==
  \A n \in Names : \A m \in Names \ {n} : Referenced(n) \cap Referenced(m) = {}

\* the steps of a destroy whose failure makes the destroy return failure
\* part-way
PartWayFaults == {"rootfs_del", "supconf", "reload"}

\* C39: when a destroy of a stopped VM fails part-way, at the deletion of
\* the rootfs file, at the removal of the supervisor config or at the
\* supervisor reload, a second destroy of the same name, run once the cause
\* is gone, succeeds and leaves no Record, no rootfs file, no supervisor
\* config, no socket file and, in internal mode, none of the interfaces of
\* the Record
C39_DestroyConvergesOnRetry ==
  \A n \in Names, fault \in PartWayFaults, force \in BOOLEAN :
    LET rec == cache[n]
        first == destroy_vm(World, n, force, "yes", fault)
        second == destroy_vm(first.w, n, force, "yes", "none")
    IN first.res = "fail" /\ first.why = fault =>
         /\ first.w.cache[n] = rec
         /\ second.res = "ok" /\ second.why = ""
         /\ ~second.w.cache[n].present
         /\ second.w.rootfs[rec.rootfs] = ""
         /\ ~second.w.supConf[n] /\ ~second.w.supLoaded[n]
         /\ ~second.w.sock[n]
         /\ rec.networkdriver = "internal" =>
              /\ ~second.w.dev[rec.tap_device].present
              /\ ~second.w.dev[rec.mmds_tap].present

\* a destroy of vm1 has failed at the deletion of its rootfs file: the
\* interfaces of its Record are gone, the Record and the file are there
C39_Witness ==
  /\ cache["vm1"].present /\ cache["vm1"].valid
  /\ hist["vm1"].created /\ hist["vm1"].trail = ""
  /\ ~sock["vm1"] /\ hv["vm1"].st = "down"
  /\ ~dev[cache["vm1"].tap_device].present
  /\ ~dev[cache["vm1"].mmds_tap].present
  /\ rootfs[cache["vm1"].rootfs] # ""
  /\ supConf["vm1"]
  /\ destroy_vm(World, "vm1", TRUE, "yes", "none").res = "ok"

\* ------------------------------------------------------------------------
\* Creates of several VMs one after another, none destroyed
\* ------------------------------------------------------------------------

NamesCreateFaults == {"none", "start"}

NextNames ==
  \/ \E n \in Names : Create(n, NamesCreateFaults, {FALSE})
  \/ \E n \in Names : Stop(n, {"none"})

SpecNames == Init /\ [][NextNames]_vars

\* the interface names that the last successful create of n generated
AssignedTaps(n) ==
  IF hist[n].created /\ hist[n].networkdriver = "internal"
  THEN <<hist[n].tap_device, hist[n].mmds_tap>>
  ELSE <<>>

\* no name occurs twice among the names generated for the VMs in S
PairwiseDistinct(S) ==
  /\ \A n \in S : \A i, j \in DOMAIN AssignedTaps(n) :
        i # j => AssignedTaps(n)[i] # AssignedTaps(n)[j]
  /\ \A n, m \in S : \A i \in DOMAIN AssignedTaps(n) :
        \A j \in DOMAIN AssignedTaps(m) :
          n # m => AssignedTaps(n)[i] # AssignedTaps(m)[j]

====
